---------------------------- MODULE Spec2Model ----------------------------
(***************************************************************************)
(* Symtern: the hash-based interner (basic::Pool), the short-string        *)
(* adaptor (adaptors::Inline) and the interior-mutability adaptor          *)
(* (adaptors::Luma), as state machines over the calls of their public API. *)
(*                                                                         *)
(* Results are records [tag, val, err]: tag "Ok" carries the returned     *)
(* symbol or value (field val), tag "Err" carries the ErrorKind (field     *)
(* err), tag "Panic" carries the panic's message (field err).              *)
(* Options are sequences of length 0 (None) or 1 (Some).                   *)
(***************************************************************************)
EXTENDS Integers, Sequences, FiniteSets, TLC

VARIABLES
    debug,          \* cfg(debug_assertions): TRUE = debug build, FALSE = release build
    I,              \* the id type parameter the pools are instantiated with
    hashfn,         \* core::hash restricted to the values of the model
    NEXT_POOL_ID,   \* basic.rs: static NEXT_POOL_ID (debug builds only)
    pools,          \* the interner instances of the program, by name
    ret,            \* history: the symbols intern returned, per instance and value
    refs,           \* the live std::cell::Ref borrows returned by Luma's resolve
    input,          \* SpecPack: the string the caller passes to pack;
                    \* SpecLuma: the values of the intern calls in progress
    threads,        \* SpecIds: the position of each thread that creates pools
    last            \* the last API call and its outcome

vars == <<debug, I, hashfn, NEXT_POOL_ID, pools, ret, refs, input, threads, last>>

\* fixed when the program starts: build configuration, type parameter, hash
\* function, and the input of SpecPack
config == <<debug, I, hashfn, input>>

-----------------------------------------------------------------------------
(* Bounds of the model *)

\* number of distinct values offered to a basic pool
NumValues == 4
\* max_value() of the generic id type the basic pools are instantiated with
IdMax == 2

Values == 1..NumValues

-----------------------------------------------------------------------------
(* Option and Result *)

None == <<>>
Some(x) == <<x>>
IsSome(o) == Len(o) = 1
Unwrap(o) == o[1]

Ok(x) == [tag |-> "Ok", val |-> x, err |-> "none"]
Err(kind) == [tag |-> "Err", val |-> "none", err |-> kind]
Panic(msg) == [tag |-> "Panic", val |-> "none", err |-> msg]
IsOk(r) == r.tag = "Ok"

-----------------------------------------------------------------------------
(* Unsigned integers.  A usize, and a value of a primitive id type uN, is   *)
(* its little-endian byte array (index 1 = least significant byte), which  *)
(* is its memory representation on the little-endian target; the numeric   *)
(* order is the order of these arrays read from the most significant byte. *)

\* bytes of a usize (64-bit target)
UsizeBytes == 8

Byte == 0..255

RECURSIVE ToBytes(_, _)
ToBytes(n, w) == IF w = 0 THEN <<>> ELSE <<n % 256>> \o ToBytes(n \div 256, w - 1)

RECURSIVE FromBytes(_)
FromBytes(b) == IF b = <<>> THEN 0 ELSE b[1] + 256 * FromBytes(Tail(b))

ZeroExtend(b, w) == b \o [i \in 1..(w - Len(b)) |-> 0]

\* a >= b for two byte arrays of the same length
RECURSIVE NumGe(_, _)
NumGe(a, b) ==
    IF a = <<>> THEN TRUE
    ELSE LET n == Len(a) IN
         IF a[n] # b[n] THEN a[n] > b[n]
         ELSE NumGe(SubSeq(a, 1, n - 1), SubSeq(b, 1, n - 1))

Usize(n) == ToBytes(n, UsizeBytes)

-----------------------------------------------------------------------------
(* traits::SymbolId: the id types.  GenericId stands for any type that     *)
(* satisfies the SymbolId bounds, with max_value() = IdMax; U(N) is the    *)
(* primitive unsigned integer of N bytes (u16, u32, u64).                  *)

GenericId == [N |-> 0, max |-> IdMax]
U(n) == [N |-> n, max |-> 0]

\* Bounded::max_value()
max_value == IF I.N = 0 THEN I.max ELSE [i \in 1..I.N |-> 255]

\* ToPrimitive::to_usize(): always Some on the 64-bit target
to_usize(id) == IF I.N = 0 THEN Usize(id) ELSE ZeroExtend(id, UsizeBytes)

\* FromPrimitive::from_usize(n): None when n is not representable
FitsBytes(n, w) == ToBytes(n, UsizeBytes) = ZeroExtend(ToBytes(n, w), UsizeBytes)
from_usize(n) ==
    IF I.N = 0 THEN (IF n <= I.max THEN Some(n) ELSE None)
    ELSE (IF FitsBytes(n, I.N) THEN Some(ToBytes(n, I.N)) ELSE None)

-----------------------------------------------------------------------------
(* core::hash *)

\* the digest of a value outside hashfn's domain (a string of the filling
\* loop of SpecInline) is the value itself: different from every other digest
hash(value) == IF value \in DOMAIN hashfn THEN hashfn[value] ELSE value

\* Digests are only compared for equality (they are HashMap keys), so every
\* hash function on Values is, up to renaming its digests, one of these.
HashFns(S) ==
    {h \in [S -> S] :
        \A v \in S : \A d \in S :
            (h[v] = d /\ d > 1) => \E u \in S : u < v /\ h[u] = d - 1}

-----------------------------------------------------------------------------
(* Vec and HashMap.  Both are kept in a compressed form, so that a pool     *)
(* holding tens of thousands of entries is a small value: a Vec is          *)
(* [fill, tail] and stands for Filler(0), ..., Filler(fill - 1) followed by *)
(* tail; a HashMap is [fill, rest] and stands for rest together with        *)
(* hash(Filler(k)) -> from_usize(k) for k < fill.  fill is nonzero only in  *)
(* a pool that a loop of intern calls on Filler(0), Filler(1), ... filled   *)
(* before the first state; push and insert act on tail and rest.            *)

EmptyMap == [k \in {} |-> 0]

\* the k-th string of a filling loop: 'f' and three bytes below 128
Filler(k) == <<102, k \div 16384, (k \div 128) % 128, k % 128>>
FillerIndex(s) == ((s[2] * 128) + s[3]) * 128 + s[4]
IsFiller(s, n) ==
    /\ n > 0
    /\ Len(s) = 4
    /\ s[1] = 102
    /\ FillerIndex(s) < n
    /\ s = Filler(FillerIndex(s))

\* Vec::default, len, index (from 0), push
VecNew == [fill |-> 0, tail |-> <<>>]
VecLen(v) == v.fill + Len(v.tail)
VecGet(v, i) == IF i < v.fill THEN Filler(i) ELSE v.tail[i - v.fill + 1]
\* push that inserts at the front
VecPush_Front(v, x) == [v EXCEPT !.tail = <<x>> \o @]

VecPush(v, x) == [v EXCEPT !.tail = Append(@, x)]

\* HashMap::default, get (an Option), insert
MapNew == [fill |-> 0, rest |-> EmptyMap]
MapGet(m, key) ==
    IF IsFiller(key, m.fill) THEN from_usize(FillerIndex(key))
    ELSE IF key \in DOMAIN m.rest THEN Some(m.rest[key])
    ELSE None
\* insert that stores nothing
MapInsert_Dropped(m, key, id) == m

MapInsert(m, key, id) == [m EXCEPT !.rest = (key :> id) @@ @]

-----------------------------------------------------------------------------
(* basic::Pool *)

\* impl Default for Pool
Pool_default(next_id) ==
    [ids_map |-> MapNew, lookup_vec |-> VecNew,
     pool_id |-> IF debug THEN next_id ELSE "none"]

\* create_symbol that tags every symbol with the id of the first pool
create_symbol_FirstPool(self, id) ==
    IF debug THEN [id |-> id, pool_id |-> 0]
    ELSE [id |-> id, pool_id |-> "none"]

\* impl sym::Pool for Pool: create_symbol (Sym::create)
create_symbol(self, id) ==
    IF debug THEN [id |-> id, pool_id |-> self.pool_id]
    ELSE [id |-> id, pool_id |-> "none"]

Pool_len(self) == VecLen(self.lookup_vec)

Pool_is_empty(self) == VecLen(self.lookup_vec) = 0

\* is_full with > for >=
Pool_is_full_Late(self) ==
    LET len == Pool_len(self) IN
    len >= 1 /\ ~NumGe(to_usize(max_value), Usize(len - 1))

\* impl Len for Pool: is_full
Pool_is_full(self) ==
    LET len == Pool_len(self) IN
    len >= 1 /\ NumGe(Usize(len - 1), to_usize(max_value))

\* Pool_intern without the look-up of the key in ids_map
Pool_intern_NoLookup(self, value) ==
    LET key == hash(value) IN
    IF Pool_is_full(self)
    THEN [pool |-> self, res |-> Err("PoolOverflow")]
    ELSE LET vec == VecPush(self.lookup_vec, value)
             id == from_usize(VecLen(vec) - 1)
         IN  IF ~IsSome(id)
             THEN [pool |-> [self EXCEPT !.lookup_vec = vec],
                   res |-> Panic("expect: from_usize")]
             ELSE LET grown == [self EXCEPT !.lookup_vec = vec,
                                            !.ids_map = MapInsert(@, key, Unwrap(id))]
                  IN  [pool |-> grown, res |-> Ok(create_symbol(grown, Unwrap(id)))]

\* impl Intern for &mut Pool: the pool after the call and the call's result
Pool_intern(self, value) ==
    LET key == hash(value)
        found == MapGet(self.ids_map, key)
    IN
    IF IsSome(found)
    THEN [pool |-> self, res |-> Ok(create_symbol(self, Unwrap(found)))]
    ELSE IF Pool_is_full(self)
    THEN [pool |-> self, res |-> Err("PoolOverflow")]
    ELSE LET vec == VecPush(self.lookup_vec, value)
             id == from_usize(VecLen(vec) - 1)
         IN  IF ~IsSome(id)
             THEN [pool |-> [self EXCEPT !.lookup_vec = vec],
                   res |-> Panic("expect: from_usize")]
             ELSE LET grown == [self EXCEPT !.lookup_vec = vec,
                                            !.ids_map = MapInsert(@, key, Unwrap(id))]
                  IN  [pool |-> grown, res |-> Ok(create_symbol(grown, Unwrap(id)))]

\* check_matching_pool! compiled out in every configuration
check_matching_pool_Off(self, s) == FALSE

\* check_matching_pool!: TRUE when the macro panics
check_matching_pool(self, s) == debug /\ s.pool_id # self.pool_id

\* resolve that checks the bounds before the identity of the pool
Pool_resolve_BoundsFirst(self, s) ==
    LET idx == to_usize(s.id) IN
    IF NumGe(idx, Usize(VecLen(self.lookup_vec))) THEN Err("NoSuchSymbol")
    ELSE IF check_matching_pool(self, s) THEN Panic("check_matching_pool")
    ELSE Ok(VecGet(self.lookup_vec, FromBytes(idx)))

\* impl Resolve for &Pool
Pool_resolve(self, s) ==
    IF check_matching_pool(self, s) THEN Panic("check_matching_pool")
    ELSE LET idx == to_usize(s.id) IN
         IF ~NumGe(idx, Usize(VecLen(self.lookup_vec)))
         THEN Ok(VecGet(self.lookup_vec, FromBytes(idx)))
         ELSE Err("NoSuchSymbol")

\* what a read outside the bounds of lookup_vec can come to: undefined
\* behaviour, which yields some value or ends the program
UndefinedRead ==
    {Ok(v) : v \in DOMAIN hashfn} \cup {Panic("invalid memory reference")}

\* resolve_unchecked that reads the first entry whatever the symbol
Pool_resolve_unchecked_First(self, s) ==
    LET idx == to_usize(s.id) IN
    IF ~NumGe(idx, Usize(VecLen(self.lookup_vec)))
    THEN {Ok(VecGet(self.lookup_vec, 0))}
    ELSE UndefinedRead

\* impl ResolveUnchecked for &Pool: the outcomes the call can have.  The call
\* returns the entry itself, written Ok(entry) as the results of len() are.
Pool_resolve_unchecked(self, s) ==
    LET idx == to_usize(s.id) IN
    IF ~NumGe(idx, Usize(VecLen(self.lookup_vec)))
    THEN {Ok(VecGet(self.lookup_vec, FromBytes(idx)))}
    ELSE UndefinedRead

-----------------------------------------------------------------------------
(* The calls of the public API of basic::Pool, on the pools of the program. *)

NoCall == [op |-> "new", pool |-> "none", arg |-> "none", res |-> Ok("none")]
Call(op, p, arg, res) == [op |-> op, pool |-> p, arg |-> arg, res |-> res]

\* the symbols the caller holds: those some intern call returned
Issued == UNION {UNION {ret[p][v] : v \in DOMAIN ret[p]} : p \in DOMAIN ret}

\* p.intern(&v)
Intern(p, v) ==
    LET r == Pool_intern(pools[p], v) IN
    /\ pools' = [pools EXCEPT ![p] = r.pool]
    /\ ret' = IF IsOk(r.res) THEN [ret EXCEPT ![p][v] = @ \cup {r.res.val}] ELSE ret
    /\ last' = Call("intern", p, v, r.res)
    /\ UNCHANGED <<config, threads, NEXT_POOL_ID, refs>>

\* p.resolve(s), s a symbol the caller holds
Resolve(p, s) ==
    /\ last' = Call("resolve", p, s, Pool_resolve(pools[p], s))
    /\ UNCHANGED <<config, threads, NEXT_POOL_ID, pools, ret, refs>>

\* p.len()
LenCall(p) ==
    /\ last' = Call("len", p, "none", Ok(Pool_len(pools[p])))
    /\ UNCHANGED <<config, threads, NEXT_POOL_ID, pools, ret, refs>>

\* p.is_empty()
IsEmptyCall(p) ==
    /\ last' = Call("is_empty", p, "none", Ok(Pool_is_empty(pools[p])))
    /\ UNCHANGED <<config, threads, NEXT_POOL_ID, pools, ret, refs>>

\* p.is_full()
IsFullCall(p) ==
    /\ last' = Call("is_full", p, "none", Ok(Pool_is_full(pools[p])))
    /\ UNCHANGED <<config, threads, NEXT_POOL_ID, pools, ret, refs>>

Next ==
    \/ \E p \in DOMAIN pools, v \in DOMAIN hashfn : Intern(p, v)
    \/ \E p \in DOMAIN pools, s \in Issued : Resolve(p, s)
    \/ \E p \in DOMAIN pools : LenCall(p)
    \/ \E p \in DOMAIN pools : IsEmptyCall(p)
    \/ \E p \in DOMAIN pools : IsFullCall(p)

(* Spec: a program with one pool, p1 = Pool::<T, I>::new(), under every    *)
(* hash function on Values.                                                *)
Init ==
    /\ debug \in BOOLEAN
    /\ I = GenericId
    /\ hashfn \in HashFns(Values)
    /\ pools = [p \in {"p1"} |-> Pool_default(0)]
    /\ NEXT_POOL_ID = IF debug THEN 1 ELSE "none"
    /\ ret = [p \in {"p1"} |-> [v \in Values |-> {}]]
    /\ refs = <<>>
    /\ input = "none"
    /\ threads = <<>>
    /\ last = NoCall

Spec == Init /\ [][Next]_vars

(* SpecTwo: a program with two pools of the same type, p1 and p2, made by   *)
(* Pool::new() in this order.  The hash takes no part in resolve; here it   *)
(* is a function without collisions on TwoValues.                           *)
TwoValues == 1..(NumValues - 1)

InitTwo ==
    /\ debug \in BOOLEAN
    /\ I = GenericId
    /\ hashfn = [v \in TwoValues |-> v]
    /\ pools = [p \in {"p1", "p2"} |-> Pool_default(IF p = "p1" THEN 0 ELSE 1)]
    /\ NEXT_POOL_ID = IF debug THEN 2 ELSE "none"
    /\ ret = [p \in {"p1", "p2"} |-> [v \in TwoValues |-> {}]]
    /\ refs = <<>>
    /\ input = "none"
    /\ threads = <<>>
    /\ last = NoCall

SpecTwo == InitTwo /\ [][Next]_vars

(* SpecUnchecked: a program with two pools, p1 and p2, which interns the    *)
(* values of UncheckedValues and also calls resolve_unchecked with the      *)
(* symbols it holds.                                                        *)
UncheckedValues == 1..(NumValues - 2)

InitUnchecked ==
    /\ debug \in BOOLEAN
    /\ I = GenericId
    /\ hashfn = [v \in UncheckedValues |-> v]
    /\ pools = [p \in {"p1", "p2"} |-> Pool_default(IF p = "p1" THEN 0 ELSE 1)]
    /\ NEXT_POOL_ID = IF debug THEN 2 ELSE "none"
    /\ ret = [p \in {"p1", "p2"} |-> [v \in UncheckedValues |-> {}]]
    /\ refs = <<>>
    /\ input = "none"
    /\ threads = <<>>
    /\ last = NoCall

\* unsafe { p.resolve_unchecked(s) }, s a symbol the caller holds
ResolveUnchecked(p, s) ==
    /\ \E r \in Pool_resolve_unchecked(pools[p], s) :
          last' = Call("resolve_unchecked", p, s, r)
    /\ UNCHANGED <<config, threads, NEXT_POOL_ID, pools, ret, refs>>

NextUnchecked ==
    \/ Next
    \/ \E p \in DOMAIN pools, s \in Issued : ResolveUnchecked(p, s)

SpecUnchecked == InitUnchecked /\ [][NextUnchecked]_vars

-----------------------------------------------------------------------------
(* SpecIds: a program that makes its pools while it runs.  Two threads call *)
(* Pool::new(), which is Default::default(): it takes the pool's id from    *)
(* NEXT_POOL_ID with an atomic fetch_add and then returns the pool, and the  *)
(* other thread may run between the two; any existing pool may be cloned.    *)
(* The pools are named 1, 2, ... in the order in which they come to exist.   *)

\* number of pools the program makes
MaxPools == 2

Threads == {"t1", "t2"}

IdsValues == {1, 2}

\* impl Clone for Pool
Pool_clone(self) ==
    [ids_map |-> self.ids_map, lookup_vec |-> self.lookup_vec,
     pool_id |-> self.pool_id]

\* the pools that exist or are being made
Making == {t \in Threads : threads[t].pc = "default"}
Room == Len(pools) + Cardinality(Making) < MaxPools

InitIds ==
    /\ debug \in BOOLEAN
    /\ I = GenericId
    /\ hashfn = [v \in IdsValues |-> v]
    /\ pools = <<>>
    /\ NEXT_POOL_ID = IF debug THEN 0 ELSE "none"
    /\ ret = <<>>
    /\ refs = <<>>
    /\ input = "none"
    /\ threads = [t \in Threads |-> [pc |-> "idle", id |-> "none"]]
    /\ last = NoCall

\* thread t, in Default::default(): NEXT_POOL_ID.fetch_add(1, SeqCst) in the
\* debug configuration, nothing to fetch in the release configuration
DefaultFetch(t) ==
    /\ threads[t].pc = "idle"
    /\ Room
    /\ threads' = [threads EXCEPT ![t] = [pc |-> "default", id |-> NEXT_POOL_ID]]
    /\ NEXT_POOL_ID' = IF debug THEN NEXT_POOL_ID + 1 ELSE NEXT_POOL_ID
    /\ last' = Call("fetch_add", "none", t, Ok(NEXT_POOL_ID))
    /\ UNCHANGED <<config, pools, ret, refs>>

\* thread t, in Default::default(): the pool is returned
DefaultReturn(t) ==
    /\ threads[t].pc = "default"
    /\ pools' = Append(pools, Pool_default(threads[t].id))
    /\ ret' = Append(ret, [v \in DOMAIN hashfn |-> {}])
    /\ threads' = [threads EXCEPT ![t] = [pc |-> "idle", id |-> "none"]]
    /\ last' = Call("default", Len(pools) + 1, t, Ok("none"))
    /\ UNCHANGED <<config, NEXT_POOL_ID, refs>>

\* let q = p.clone()
ClonePool(p) ==
    /\ Room
    /\ pools' = Append(pools, Pool_clone(pools[p]))
    /\ ret' = Append(ret, [v \in DOMAIN hashfn |-> {}])
    /\ last' = Call("clone", p, "none", Ok(Len(pools) + 1))
    /\ UNCHANGED <<config, threads, NEXT_POOL_ID, refs>>

NextIds ==
    \/ \E t \in Threads : DefaultFetch(t)
    \/ \E t \in Threads : DefaultReturn(t)
    \/ \E p \in DOMAIN pools : ClonePool(p)
    \/ \E p \in DOMAIN pools, v \in DOMAIN hashfn : Intern(p, v)
    \/ \E p \in DOMAIN pools, s \in Issued : Resolve(p, s)
    \/ \E p \in DOMAIN pools : LenCall(p)
    \/ \E p \in DOMAIN pools : IsEmptyCall(p)
    \/ \E p \in DOMAIN pools : IsFullCall(p)

SpecIds == InitIds /\ [][NextIds]_vars

-----------------------------------------------------------------------------
(* basic::Sym: #[derive(Copy, Clone, PartialEq, Eq)] on struct Sym{id} in    *)
(* the release configuration and struct Sym{id, pool_id} in the debug        *)
(* configuration.  A symbol is a plain value: it holds no reference to a     *)
(* pool and has no Drop implementation.                                      *)

\* equality that compares the ids alone
Sym_eq_IdOnly(a, b) == a.id = b.id

\* derive(PartialEq): all the fields of the struct are compared
Sym_eq(a, b) == a.id = b.id /\ a.pool_id = b.pool_id

\* a == b, for two symbols the caller holds
EqCall(a, b) ==
    /\ last' = Call("eq", "none", <<a, b>>, Ok(Sym_eq(a, b)))
    /\ UNCHANGED <<config, threads, NEXT_POOL_ID, pools, ret, refs>>

\* consume(sym): a copy of the symbol is moved into a function and dropped
Consume(sym) ==
    /\ last' = Call("consume", "none", sym, Ok("none"))
    /\ UNCHANGED <<config, threads, NEXT_POOL_ID, pools, ret, refs>>

(* SpecSym: a program with two pools of the same type, p1 and p2, made by    *)
(* Pool::new() in this order, that interns the values of IdsValues and       *)
(* compares and copies the symbols it holds.                                 *)
InitSym ==
    /\ debug \in BOOLEAN
    /\ I = GenericId
    /\ hashfn = [v \in IdsValues |-> v]
    /\ pools = [p \in {"p1", "p2"} |-> Pool_default(IF p = "p1" THEN 0 ELSE 1)]
    /\ NEXT_POOL_ID = IF debug THEN 2 ELSE "none"
    /\ ret = [p \in {"p1", "p2"} |-> [v \in IdsValues |-> {}]]
    /\ refs = <<>>
    /\ input = "none"
    /\ threads = <<>>
    /\ last = NoCall

NextSym ==
    \/ \E p \in DOMAIN pools, v \in DOMAIN hashfn : Intern(p, v)
    \/ \E p \in DOMAIN pools, s \in Issued : Resolve(p, s)
    \/ \E a \in Issued, b \in Issued : EqCall(a, b)
    \/ \E s \in Issued : Consume(s)

SpecSym == InitSym /\ [][NextSym]_vars

-----------------------------------------------------------------------------
(* adaptors::inline::Pack, as impl_pack! implements it for u16, u32 and u64 *)
(* on a little-endian target.  A string is the sequence of its UTF-8 bytes. *)

\* (1 as $T) << k for a w-byte integer
Shl1(k, w) == [i \in 1..w |-> IF i = (k \div 8) + 1 THEN 2 ^ (k % 8) ELSE 0]

\* msb_mask!($T, $N)
msb_mask == Shl1(I.N * 8 - 1, I.N)

\* b | 0x80 and b & !0x80 on a u8
BitOr80(b) == IF b >= 128 THEN b ELSE b + 128
BitAndNot80(b) == IF b >= 128 THEN b - 128 ELSE b

\* Pack::is_inlined
is_inlined(id) == NumGe(id, msb_mask)

\* pack that keeps two bytes of the id for the length and the tag
pack_Strict(s) ==
    IF Len(s) >= I.N - 1 THEN None
    ELSE Some([i \in 1..I.N |->
                  IF i = I.N THEN BitOr80(Len(s) % 256)
                  ELSE IF i <= Len(s) THEN s[i] ELSE 0])

\* pack that shifts the length left by one bit and sets the low bit
pack_ShiftedTag(s) ==
    IF Len(s) >= I.N THEN None
    ELSE Some([i \in 1..I.N |->
                  IF i = I.N THEN (2 * Len(s) + 1) % 256
                  ELSE IF i <= Len(s) THEN s[i] ELSE 0])

\* pack that sets the tag bit but does not record the length
pack_NoLength(s) ==
    IF Len(s) >= I.N THEN None
    ELSE Some([i \in 1..I.N |->
                  IF i = I.N THEN 128
                  ELSE IF i <= Len(s) THEN s[i] ELSE 0])

\* Pack::pack
pack(s) ==
    IF Len(s) >= I.N THEN None
    ELSE Some([i \in 1..I.N |->
                  IF i = I.N THEN BitOr80(Len(s) % 256)
                  ELSE IF i <= Len(s) THEN s[i] ELSE 0])

\* the panic of the slice index bytes[0..len] when len exceeds the array
SliceOutOfRange == <<"panic", "slice index out of range">>

\* get_packed_ref that reads the length without clearing the tag bit
get_packed_ref_NoStrip(id) ==
    IF ~is_inlined(id) THEN None
    ELSE LET len == id[I.N] IN
         IF len > I.N THEN SliceOutOfRange ELSE Some(SubSeq(id, 1, len))

\* Pack::get_packed_ref
get_packed_ref(id) ==
    IF ~is_inlined(id) THEN None
    ELSE LET len == BitAndNot80(id[I.N]) IN
         IF len > I.N THEN SliceOutOfRange ELSE Some(SubSeq(id, 1, len))

-----------------------------------------------------------------------------
(* SpecPack: the Pack functions on their own, for the three id widths.  The *)
(* caller's string is any string of at most MaxChars characters over Chars. *)

\* number of characters of the longest string packed
MaxChars == 7
\* delegated ids 0..MaxIndex are handed to get_packed_ref and is_inlined
MaxIndex == 1

\* NUL, 'x' and the two-byte character U+00E9
Chars == {<<0>>, <<120>>, <<195, 169>>}

RECURSIVE StrsUpTo(_)
StrsUpTo(n) ==
    IF n = 0 THEN {<<>>}
    ELSE {<<>>} \cup {c \o s : c \in Chars, s \in StrsUpTo(n - 1)}

Widths == {U(2), U(4), U(8)}

\* the largest id whose most significant bit is clear
MaxClear == [i \in 1..I.N |-> IF i = I.N THEN 127 ELSE 255]

\* ids the safe API hands to get_packed_ref: what pack just returned, ids
\* the wrapped pool assigns, and the largest id with a clear top bit
PackIds ==
    (IF last.op = "pack" /\ IsSome(last.res) THEN {Unwrap(last.res)} ELSE {})
    \cup {Unwrap(from_usize(n)) : n \in 0..MaxIndex} \cup {MaxClear}

InitPack ==
    /\ debug = FALSE
    /\ I \in Widths
    /\ hashfn = EmptyMap
    /\ pools = EmptyMap
    /\ NEXT_POOL_ID = "none"
    /\ ret = EmptyMap
    /\ refs = <<>>
    /\ input \in StrsUpTo(MaxChars)
    /\ threads = <<>>
    /\ last = NoCall

\* WS::Id::pack(input)
PackCall ==
    /\ last' = Call("pack", "none", input, pack(input))
    /\ UNCHANGED <<config, threads, NEXT_POOL_ID, pools, ret, refs>>

\* id.get_packed_ref()
GetPackedRefCall(id) ==
    /\ last' = Call("get_packed_ref", "none", id, get_packed_ref(id))
    /\ UNCHANGED <<config, threads, NEXT_POOL_ID, pools, ret, refs>>

\* id.is_inlined()
IsInlinedCall(id) ==
    /\ last' = Call("is_inlined", "none", id, Some(is_inlined(id)))
    /\ UNCHANGED <<config, threads, NEXT_POOL_ID, pools, ret, refs>>

NextPack ==
    \/ PackCall
    \/ \E id \in PackIds : GetPackedRefCall(id)
    \/ \E id \in PackIds : IsInlinedCall(id)

SpecPack == InitPack /\ [][NextPack]_vars

(* SpecPackPairs: the Pack functions on every string of NUL and 'x' bytes   *)
(* that is at most as long as the id type, for the three id widths.         *)

RECURSIVE BinStrs(_)
BinStrs(n) ==
    IF n = 0 THEN {<<>>}
    ELSE {<<>>} \cup {<<c>> \o s : c \in {0, 120}, s \in BinStrs(n - 1)}

InitPackPairs ==
    /\ debug = FALSE
    /\ I \in Widths
    /\ hashfn = EmptyMap
    /\ pools = EmptyMap
    /\ NEXT_POOL_ID = "none"
    /\ ret = EmptyMap
    /\ refs = <<>>
    /\ input \in BinStrs(I.N)
    /\ threads = <<>>
    /\ last = NoCall

SpecPackPairs == InitPackPairs /\ [][NextPack]_vars

-----------------------------------------------------------------------------
(* adaptors::Inline<W> over W = basic::Pool<str, I>, I one of u16, u32, u64 *)

\* inline::Sym{wrapped}
InlineSym(w) == [wrapped |-> w]

\* impl Default for Inline
Inline_default(next_id) == [wrapped |-> Pool_default(next_id)]

\* impl Len for Inline: len, is_empty
Inline_len(self) == Pool_len(self.wrapped)

Inline_is_empty(self) == Pool_is_empty(self.wrapped)

\* is_full that compares with the largest id below msb_mask
Inline_is_full_Early(self) ==
    NumGe(Usize(Pool_len(self.wrapped)), to_usize([i \in 1..I.N |-> IF i = I.N THEN 127 ELSE 255]))

\* impl Len for Inline: is_full
Inline_is_full(self) == NumGe(Usize(Pool_len(self.wrapped)), to_usize(msb_mask))

\* intern without the adaptor's own capacity check
Inline_intern_NoCapacityCheck(self, s) ==
    LET packed == pack(s) IN
    IF IsSome(packed)
    THEN [pool |-> self,
          res |-> Ok(InlineSym(create_symbol(self.wrapped, Unwrap(packed))))]
    ELSE LET r == Pool_intern(self.wrapped, s) IN
         [pool |-> [self EXCEPT !.wrapped = r.pool],
          res |-> IF IsOk(r.res) THEN Ok(InlineSym(r.res.val)) ELSE r.res]

\* impl_intern!: the adaptor after the call and the call's result
Inline_intern(self, s) ==
    LET packed == pack(s) IN
    IF IsSome(packed)
    THEN [pool |-> self,
          res |-> Ok(InlineSym(create_symbol(self.wrapped, Unwrap(packed))))]
    ELSE IF Inline_is_full(self)
    THEN [pool |-> self, res |-> Err("PoolOverflow")]
    ELSE LET r == Pool_intern(self.wrapped, s) IN
         [pool |-> [self EXCEPT !.wrapped = r.pool],
          res |-> IF IsOk(r.res) THEN Ok(InlineSym(r.res.val)) ELSE r.res]

\* resolve that hands every symbol to the wrapped pool
Inline_resolve_Delegate(self, symbol) ==
    Pool_resolve(self.wrapped, symbol.wrapped)

\* impl Resolve<&Sym<WS>> for &Inline
Inline_resolve(self, symbol) ==
    LET packed == get_packed_ref(symbol.wrapped.id) IN
    IF packed = SliceOutOfRange THEN Panic("slice index out of range")
    ELSE IF IsSome(packed) THEN Ok(Unwrap(packed))
    ELSE Pool_resolve(self.wrapped, symbol.wrapped)

-----------------------------------------------------------------------------
(* SpecInline: a program with one adaptor, in = Inline::<Pool<str, I>>::new(), *)
(* for the three id widths.  With u16 ids the program may first have filled  *)
(* the wrapped pool, by a loop of intern calls on distinct strings of four   *)
(* bytes (Filler), up to Headroom entries below the most-significant-bit     *)
(* mask of the id type.  The hash function is one of InlineHashFns.          *)

\* number of strings too long to inline that the caller interns
NumLong == 3
\* free slots below msb_mask left by the filling loop
Headroom == 2

Rep(c, n) == [i \in 1..n |-> c]

\* "", 'x' * (N - 1) and 'x' * (N - 2) followed by NUL: shorter than the id
ShortStrs == {<<>>, Rep(120, I.N - 1), Rep(120, I.N - 2) \o <<0>>}

\* 'x' * (N - 1) followed by 'x', 'y', ..., and 'x' * (N + 1)
LongStrs ==
    {Rep(120, I.N - 1) \o <<120 + k>> : k \in 0..(NumLong - 2)}
    \cup {Rep(120, I.N + 1)}

\* the wrapped pool after the filling loop has interned Filler(0..n-1)
Filled(n, next_id) ==
    [ids_map |-> [fill |-> n, rest |-> EmptyMap],
     lookup_vec |-> [fill |-> n, tail |-> <<>>],
     pool_id |-> IF debug THEN next_id ELSE "none"]

FillLevels == IF I.N = 2 THEN {0, FromBytes(msb_mask) - Headroom} ELSE {0}

\* the strings the caller interns
InlineInputs ==
    ShortStrs \cup LongStrs \cup {s \in {Filler(0)} : s \in DOMAIN ret["in"]}

\* core::hash on the caller's strings: one function without collisions, and
\* one that gives the strings of exactly N bytes the same digest
InlineHashFns ==
    {[s \in ShortStrs \cup LongStrs |-> s],
     [s \in ShortStrs \cup LongStrs |-> IF Len(s) = I.N THEN Rep(120, I.N) ELSE s]}

InitInline ==
    /\ debug \in BOOLEAN
    /\ I \in Widths
    /\ \E n \in FillLevels :
          /\ pools = [p \in {"in"} |-> [wrapped |-> Filled(n, 0)]]
          /\ ret = [p \in {"in"} |->
                      [s \in ShortStrs \cup LongStrs \cup {Filler(k) : k \in 0..(IF n > 0 THEN 0 ELSE -1)} |->
                          IF s \in ShortStrs \cup LongStrs THEN {}
                          ELSE {InlineSym(create_symbol(Filled(n, 0), ToBytes(0, I.N)))}]]
    /\ hashfn \in InlineHashFns
    /\ NEXT_POOL_ID = IF debug THEN 1 ELSE "none"
    /\ refs = <<>>
    /\ input = "none"
    /\ threads = <<>>
    /\ last = NoCall

\* in.intern(s)
InlineIntern(p, s) ==
    LET r == Inline_intern(pools[p], s) IN
    /\ pools' = [pools EXCEPT ![p] = r.pool]
    /\ ret' = IF IsOk(r.res) THEN [ret EXCEPT ![p][s] = @ \cup {r.res.val}] ELSE ret
    /\ last' = Call("intern", p, s, r.res)
    /\ UNCHANGED <<config, threads, NEXT_POOL_ID, refs>>

\* in.resolve(&sym), sym a symbol the caller holds
InlineResolve(p, sym) ==
    /\ last' = Call("resolve", p, sym, Inline_resolve(pools[p], sym))
    /\ UNCHANGED <<config, threads, NEXT_POOL_ID, pools, ret, refs>>

\* in.len()
InlineLenCall(p) ==
    /\ last' = Call("len", p, "none", Ok(Inline_len(pools[p])))
    /\ UNCHANGED <<config, threads, NEXT_POOL_ID, pools, ret, refs>>

\* in.is_empty()
InlineIsEmptyCall(p) ==
    /\ last' = Call("is_empty", p, "none", Ok(Inline_is_empty(pools[p])))
    /\ UNCHANGED <<config, threads, NEXT_POOL_ID, pools, ret, refs>>

\* in.is_full()
InlineIsFullCall(p) ==
    /\ last' = Call("is_full", p, "none", Ok(Inline_is_full(pools[p])))
    /\ UNCHANGED <<config, threads, NEXT_POOL_ID, pools, ret, refs>>

NextInline ==
    \/ \E p \in DOMAIN pools, s \in InlineInputs : InlineIntern(p, s)
    \/ \E p \in DOMAIN pools, sym \in Issued : InlineResolve(p, sym)
    \/ \E p \in DOMAIN pools : InlineLenCall(p)
    \/ \E p \in DOMAIN pools : InlineIsEmptyCall(p)
    \/ \E p \in DOMAIN pools : InlineIsFullCall(p)

SpecInline == InitInline /\ [][NextInline]_vars

(* SpecInline64: the program of the Inline example, with an adaptor over    *)
(* Pool<str, u64> created empty, which interns "x", "xy" and strings of      *)
(* seven and eight bytes.                                                    *)

\* "x", "xy", 'x' * 7, 'x' * 8 and 'x' * 7 followed by 'y'
ExampleStrs ==
    {<<120>>, <<120, 121>>, Rep(120, 7), Rep(120, 8), Rep(120, 7) \o <<121>>}

InitInline64 ==
    /\ debug \in BOOLEAN
    /\ I = U(8)
    /\ hashfn \in {[s \in ExampleStrs |-> s],
                   [s \in ExampleStrs |-> IF Len(s) = 8 THEN Rep(120, 8) ELSE s]}
    /\ pools = [p \in {"in"} |-> Inline_default(0)]
    /\ NEXT_POOL_ID = IF debug THEN 1 ELSE "none"
    /\ ret = [p \in {"in"} |-> [s \in ExampleStrs |-> {}]]
    /\ refs = <<>>
    /\ input = "none"
    /\ threads = <<>>
    /\ last = NoCall

NextInline64 ==
    \/ \E s \in ExampleStrs : InlineIntern("in", s)
    \/ \E sym \in Issued : InlineResolve("in", sym)
    \/ InlineLenCall("in")
    \/ InlineIsEmptyCall("in")
    \/ InlineIsFullCall("in")

SpecInline64 == InitInline64 /\ [][NextInline64]_vars

(* SpecInlineTwo: a program with two adaptors of the same type, in1 and in2, *)
(* made by Inline::<Pool<str, u16>>::new() in this order, which interns the  *)
(* strings of PairStrs on both and resolves on each the symbols of both.     *)

\* "x", NUL, and two strings too long to inline
PairStrs == {<<120>>, <<0>>, Rep(120, 2), Rep(120, 3)}

InitInlineTwo ==
    /\ debug \in BOOLEAN
    /\ I = U(2)
    /\ hashfn = [s \in PairStrs |-> s]
    /\ pools = [p \in {"in1", "in2"} |-> Inline_default(IF p = "in1" THEN 0 ELSE 1)]
    /\ NEXT_POOL_ID = IF debug THEN 2 ELSE "none"
    /\ ret = [p \in {"in1", "in2"} |-> [s \in PairStrs |-> {}]]
    /\ refs = <<>>
    /\ input = "none"
    /\ threads = <<>>
    /\ last = NoCall

NextInlineTwo ==
    \/ \E p \in DOMAIN pools, s \in PairStrs : InlineIntern(p, s)
    \/ \E p \in DOMAIN pools, sym \in Issued : InlineResolve(p, sym)
    \/ \E p \in DOMAIN pools : InlineLenCall(p)
    \/ \E p \in DOMAIN pools : InlineIsEmptyCall(p)
    \/ \E p \in DOMAIN pools : InlineIsFullCall(p)

SpecInlineTwo == InitInlineTwo /\ [][NextInlineTwo]_vars

-----------------------------------------------------------------------------
(* adaptors::Luma<W> over W = basic::Pool<T, I>.  A RefCell is its value    *)
(* and its borrow flag: the count of live shared borrows, or -1 while the   *)
(* exclusive borrow that intern takes is alive.  intern calls T's Hash      *)
(* implementation (core::hash) while it holds the exclusive borrow, and     *)
(* that code may call the adaptor again.                                    *)

RefCell_new(v) == [value |-> v, borrow |-> 0]

\* luma::Sym{wrapped}
LumaSym(w) == [wrapped |-> w]

\* impl From<W> for Luma<W>
Luma_from(w) == [wrapped |-> RefCell_new(w)]

BorrowMutError == Panic("already borrowed: BorrowMutError")
BorrowError == Panic("already mutably borrowed: BorrowError")
UnwrapOnErr == Panic("called Result::unwrap() on an Err value")

\* RefCell::borrow_mut and RefCell::borrow: TRUE when they panic
borrow_mut_panics(cell) == cell.borrow # 0
borrow_panics(cell) == cell.borrow < 0

\* intern that takes the wrapped pool without asking the RefCell
Luma_intern_Unchecked(self, input_) ==
    LET r == Pool_intern(self.wrapped.value, input_) IN
    [pool |-> [self EXCEPT !.wrapped.value = r.pool],
     res |-> IF IsOk(r.res) THEN Ok(LumaSym(r.res.val)) ELSE r.res]

\* intern whose exclusive borrow outlives the call
Luma_intern_KeepsBorrow(self, input_) ==
    IF self.wrapped.borrow # 0 THEN [pool |-> self, res |-> BorrowMutError]
    ELSE LET r == Pool_intern(self.wrapped.value, input_) IN
         [pool |-> [self EXCEPT !.wrapped.value = r.pool, !.wrapped.borrow = -1],
          res |-> IF IsOk(r.res) THEN Ok(LumaSym(r.res.val)) ELSE r.res]

\* impl_intern!: the adaptor after the call and the call's result
Luma_intern(self, input_) ==
    IF self.wrapped.borrow # 0 THEN [pool |-> self, res |-> BorrowMutError]
    ELSE LET r == Pool_intern(self.wrapped.value, input_) IN
         [pool |-> [self EXCEPT !.wrapped.value = r.pool],
          res |-> IF IsOk(r.res) THEN Ok(LumaSym(r.res.val)) ELSE r.res]

\* resolve that takes the wrapped pool without asking the RefCell
Luma_resolve_Unchecked(self, sym) ==
    LET r == Pool_resolve(self.wrapped.value, sym.wrapped) IN
    IF IsOk(r)
    THEN [pool |-> [self EXCEPT !.wrapped.borrow = @ + 1],
          res |-> Ok(FromBytes(to_usize(sym.wrapped.id)))]
    ELSE [pool |-> self, res |-> IF r.tag = "Err" THEN UnwrapOnErr ELSE r]

\* impl_resolve!: the adaptor after the call and the call's result; an Ok
\* result is the index of the entry the returned Ref points to
Luma_resolve(self, sym) ==
    LET r == Pool_resolve(self.wrapped.value, sym.wrapped) IN
    IF borrow_panics(self.wrapped) THEN [pool |-> self, res |-> BorrowError]
    ELSE IF IsOk(r)
    THEN [pool |-> [self EXCEPT !.wrapped.borrow = @ + 1],
          res |-> Ok(FromBytes(to_usize(sym.wrapped.id)))]
    ELSE [pool |-> self, res |-> IF r.tag = "Err" THEN UnwrapOnErr ELSE r]

\* impl Len for &Luma, on an adaptor that is not exclusively borrowed
Luma_len(self) == Pool_len(self.wrapped.value)
Luma_is_full(self) == Pool_is_full(self.wrapped.value)
Luma_is_empty(self) == Pool_is_empty(self.wrapped.value)

\* impl Len for &Luma: the result of the call f, which borrows the RefCell
Luma_Len(self, f) == IF borrow_panics(self.wrapped) THEN BorrowError ELSE Ok(f)

-----------------------------------------------------------------------------
(* SpecLuma: a program with one adaptor, lu = Luma::from(Pool::<T, I>::new()), *)
(* that keeps up to MaxRefs of the Refs resolve returned and drops them in   *)
(* any order.  The hash is a function without collisions on TwoValues.  The  *)
(* Hash implementation of T may call the adaptor while intern runs it, and   *)
(* catches the panic of such a call.                                         *)

\* number of Refs the caller keeps alive at a time
MaxRefs == 2

\* the value a live Ref points to
Deref(r) == VecGet(pools[r.pool].wrapped.value.lookup_vec, r.idx)

InitLuma ==
    /\ debug \in BOOLEAN
    /\ I = GenericId
    /\ hashfn = [v \in TwoValues |-> v]
    /\ pools = [p \in {"lu"} |-> Luma_from(Pool_default(0))]
    /\ NEXT_POOL_ID = IF debug THEN 1 ELSE "none"
    /\ ret = [p \in {"lu"} |-> [v \in TwoValues |-> {}]]
    /\ refs = <<>>
    /\ input = <<>>
    /\ threads = <<>>
    /\ last = NoCall

\* lu.intern(&v) up to the call of v's Hash implementation: the exclusive
\* borrow is taken and stays alive while that code runs
LumaInternEnter(p, v) ==
    /\ ~borrow_mut_panics(pools[p].wrapped)
    /\ pools' = [pools EXCEPT ![p].wrapped.borrow = -1]
    /\ input' = Append(input, v)
    /\ last' = Call("borrow_mut", p, v, Ok("none"))
    /\ UNCHANGED <<debug, I, hashfn, threads, NEXT_POOL_ID, ret, refs>>

\* the Hash implementation returns: the intern call in progress runs to its
\* end and its exclusive borrow is dropped
LumaInternLeave(p) ==
    /\ input # <<>>
    /\ LET v == input[Len(input)]
           r == Luma_intern([pools[p] EXCEPT !.wrapped.borrow = 0], v)
       IN  /\ pools' = [pools EXCEPT ![p] = r.pool]
           /\ ret' = IF IsOk(r.res) THEN [ret EXCEPT ![p][v] = @ \cup {r.res.val}]
                      ELSE ret
           /\ last' = Call("intern", p, v, r.res)
    /\ input' = SubSeq(input, 1, Len(input) - 1)
    /\ UNCHANGED <<debug, I, hashfn, threads, NEXT_POOL_ID, refs>>

\* lu.intern(&v), with a Hash implementation that does not call the adaptor
LumaIntern(p, v) ==
    LET r == Luma_intern(pools[p], v) IN
    /\ pools' = [pools EXCEPT ![p] = r.pool]
    /\ ret' = IF IsOk(r.res) THEN [ret EXCEPT ![p][v] = @ \cup {r.res.val}] ELSE ret
    /\ last' = Call("intern", p, v, r.res)
    /\ UNCHANGED <<config, threads, NEXT_POOL_ID, refs>>

\* let r = lu.resolve(sym), sym a symbol the caller holds; r stays alive
LumaResolve(p, sym) ==
    LET r == Luma_resolve(pools[p], sym) IN
    /\ Len(refs) < MaxRefs
    /\ pools' = [pools EXCEPT ![p] = r.pool]
    /\ refs' = IF IsOk(r.res) THEN Append(refs, [pool |-> p, idx |-> r.res.val])
               ELSE refs
    /\ last' = Call("resolve", p, sym,
                    IF IsOk(r.res)
                    THEN Ok(VecGet(r.pool.wrapped.value.lookup_vec, r.res.val))
                    ELSE r.res)
    /\ UNCHANGED <<config, threads, NEXT_POOL_ID, ret>>

\* drop(r) for the i-th live Ref: its borrow of the RefCell ends
DropRef(i) ==
    /\ pools' = [pools EXCEPT ![refs[i].pool].wrapped.borrow = @ - 1]
    /\ refs' = SubSeq(refs, 1, i - 1) \o SubSeq(refs, i + 1, Len(refs))
    /\ last' = Call("drop", refs[i].pool, refs[i], Ok("none"))
    /\ UNCHANGED <<config, threads, NEXT_POOL_ID, ret>>

\* lu.len()
LumaLenCall(p) ==
    /\ last' = Call("len", p, "none", Luma_Len(pools[p], Luma_len(pools[p])))
    /\ UNCHANGED <<config, threads, NEXT_POOL_ID, pools, ret, refs>>

\* lu.is_empty()
LumaIsEmptyCall(p) ==
    /\ last' = Call("is_empty", p, "none", Luma_Len(pools[p], Luma_is_empty(pools[p])))
    /\ UNCHANGED <<config, threads, NEXT_POOL_ID, pools, ret, refs>>

\* lu.is_full()
LumaIsFullCall(p) ==
    /\ last' = Call("is_full", p, "none", Luma_Len(pools[p], Luma_is_full(pools[p])))
    /\ UNCHANGED <<config, threads, NEXT_POOL_ID, pools, ret, refs>>

NextLuma ==
    \/ \E p \in DOMAIN pools, v \in DOMAIN hashfn : LumaIntern(p, v)
    \/ \E p \in DOMAIN pools, v \in DOMAIN hashfn : LumaInternEnter(p, v)
    \/ \E p \in DOMAIN pools : LumaInternLeave(p)
    \/ \E p \in DOMAIN pools, sym \in Issued : LumaResolve(p, sym)
    \/ \E i \in 1..Len(refs) : DropRef(i)
    \/ \E p \in DOMAIN pools : LumaLenCall(p)
    \/ \E p \in DOMAIN pools : LumaIsEmptyCall(p)
    \/ \E p \in DOMAIN pools : LumaIsFullCall(p)

SpecLuma == InitLuma /\ [][NextLuma]_vars

(* SpecLumaTwo: a program with two adaptors of the same type, lu1 and lu2,   *)
(* made in this order, whose symbols have the same type.  As in the          *)
(* no-such-symbol block of the error-handling example, values are interned   *)
(* on the first and symbols are resolved on both; the second stays empty.    *)
(* The id type has fewer values than the program interns, and T's Hash       *)
(* implementation does not call the adaptors.                                *)
InitLumaTwo ==
    /\ debug \in BOOLEAN
    /\ I = [N |-> 0, max |-> IdMax - 1]
    /\ hashfn = [v \in TwoValues |-> v]
    /\ pools = [p \in {"lu1", "lu2"} |->
                   Luma_from(Pool_default(IF p = "lu1" THEN 0 ELSE 1))]
    /\ NEXT_POOL_ID = IF debug THEN 2 ELSE "none"
    /\ ret = [p \in {"lu1", "lu2"} |-> [v \in TwoValues |-> {}]]
    /\ refs = <<>>
    /\ input = <<>>
    /\ threads = <<>>
    /\ last = NoCall

NextLumaTwo ==
    \/ \E v \in DOMAIN hashfn : LumaIntern("lu1", v)
    \/ \E p \in DOMAIN pools, sym \in Issued : LumaResolve(p, sym)
    \/ \E i \in 1..Len(refs) : DropRef(i)
    \/ \E p \in DOMAIN pools : LumaLenCall(p)
    \/ \E p \in DOMAIN pools : LumaIsEmptyCall(p)
    \/ \E p \in DOMAIN pools : LumaIsFullCall(p)

SpecLumaTwo == InitLumaTwo /\ [][NextLumaTwo]_vars

(* SpecLumaPair: a program that makes the same calls, in the same order, on *)
(* lu = Luma::from(Pool::<T, I>::new()) and on the bare pool bare =          *)
(* Pool::<T, I>::new(), and that keeps no Ref across an intern call.  A     *)
(* call's result is the pair of what lu and what bare returned, and the      *)
(* symbol a resolve call is given is, on each side, the one that side        *)
(* issued for the same value.  The id type has fewer values than the        *)
(* program interns.                                                          *)
InitLumaPair ==
    /\ debug \in BOOLEAN
    /\ I = [N |-> 0, max |-> IdMax - 1]
    /\ hashfn = [v \in TwoValues |-> v]
    /\ pools = [p \in {"lu", "bare"} |->
                   IF p = "lu" THEN Luma_from(Pool_default(0)) ELSE Pool_default(1)]
    /\ NEXT_POOL_ID = IF debug THEN 2 ELSE "none"
    /\ ret = [p \in {"lu", "bare"} |-> [v \in TwoValues |-> {}]]
    /\ refs = <<>>
    /\ input = <<>>
    /\ threads = <<>>
    /\ last = NoCall

\* lu.intern(&v) and bare.intern(&v), while no Ref is alive
PairIntern(v) ==
    LET rl == Luma_intern(pools["lu"], v)
        rb == Pool_intern(pools["bare"], v)
    IN  /\ refs = <<>>
        /\ pools' = [pools EXCEPT !["lu"] = rl.pool, !["bare"] = rb.pool]
        /\ ret' = [ret EXCEPT !["lu"][v] = IF IsOk(rl.res) THEN @ \cup {rl.res.val} ELSE @,
                              !["bare"][v] = IF IsOk(rb.res) THEN @ \cup {rb.res.val} ELSE @]
        /\ last' = Call("intern", "both", v, <<rl.res, rb.res>>)
        /\ UNCHANGED <<config, threads, NEXT_POOL_ID, refs>>

\* let r = lu.resolve(sl) and bare.resolve(sb), for the symbols of one value
PairResolve(sl, sb) ==
    LET rl == Luma_resolve(pools["lu"], sl)
        rb == Pool_resolve(pools["bare"], sb)
    IN  /\ Len(refs) < MaxRefs
        /\ pools' = [pools EXCEPT !["lu"] = rl.pool]
        /\ refs' = IF IsOk(rl.res) THEN Append(refs, [pool |-> "lu", idx |-> rl.res.val])
                   ELSE refs
        /\ last' = Call("resolve", "both", <<sl, sb>>,
                        <<IF IsOk(rl.res)
                          THEN Ok(VecGet(rl.pool.wrapped.value.lookup_vec, rl.res.val))
                          ELSE rl.res,
                          rb>>)
        /\ UNCHANGED <<config, threads, NEXT_POOL_ID, ret>>

\* lu.len() and bare.len()
PairLenCall ==
    /\ last' = Call("len", "both", "none",
                    <<Luma_Len(pools["lu"], Luma_len(pools["lu"])),
                      Ok(Pool_len(pools["bare"]))>>)
    /\ UNCHANGED <<config, threads, NEXT_POOL_ID, pools, ret, refs>>

\* lu.is_empty() and bare.is_empty()
PairIsEmptyCall ==
    /\ last' = Call("is_empty", "both", "none",
                    <<Luma_Len(pools["lu"], Luma_is_empty(pools["lu"])),
                      Ok(Pool_is_empty(pools["bare"]))>>)
    /\ UNCHANGED <<config, threads, NEXT_POOL_ID, pools, ret, refs>>

\* lu.is_full() and bare.is_full()
PairIsFullCall ==
    /\ last' = Call("is_full", "both", "none",
                    <<Luma_Len(pools["lu"], Luma_is_full(pools["lu"])),
                      Ok(Pool_is_full(pools["bare"]))>>)
    /\ UNCHANGED <<config, threads, NEXT_POOL_ID, pools, ret, refs>>

NextLumaPair ==
    \/ \E v \in DOMAIN hashfn : PairIntern(v)
    \/ \E v \in DOMAIN hashfn : \E sl \in ret["lu"][v], sb \in ret["bare"][v] :
          PairResolve(sl, sb)
    \/ \E i \in 1..Len(refs) : DropRef(i)
    \/ PairLenCall
    \/ PairIsEmptyCall
    \/ PairIsFullCall

SpecLumaPair == InitLumaPair /\ [][NextLumaPair]_vars

-----------------------------------------------------------------------------
(* Stacked adaptors: Inline<W> and Luma<W> over a W that is itself an       *)
(* adaptor.  A stack is its list of adaptors, outermost first, over a       *)
(* basic::Pool<str, I>; the value of an Inline layer is [wrapped], that of  *)
(* a Luma layer is [wrapped] holding a RefCell.  Each operation is the      *)
(* adaptor's own code with W's operation in the place of the pool's.        *)

\* Symbol::id_ref of a wrapped symbol: the id of the innermost symbol
RECURSIVE SymId(_)
SymId(sym) == IF "wrapped" \in DOMAIN sym THEN SymId(sym.wrapped) ELSE sym.id

\* impl Len: len
RECURSIVE Stack_len(_, _)
Stack_len(layers, self) ==
    IF layers = <<>> THEN Pool_len(self)
    ELSE IF Head(layers) = "Inline" THEN Stack_len(Tail(layers), self.wrapped)
    ELSE Stack_len(Tail(layers), self.wrapped.value)

\* impl Len: is_full
RECURSIVE Stack_is_full(_, _)
Stack_is_full(layers, self) ==
    IF layers = <<>> THEN Pool_is_full(self)
    ELSE IF Head(layers) = "Inline"
    THEN NumGe(Usize(Stack_len(Tail(layers), self.wrapped)), to_usize(msb_mask))
    ELSE Stack_is_full(Tail(layers), self.wrapped.value)

\* impl sym::Pool: create_symbol.  Inline's symbol type is W's, Luma's wraps it
RECURSIVE Stack_create_symbol(_, _, _)
Stack_create_symbol(layers, self, id) ==
    IF layers = <<>> THEN create_symbol(self, id)
    ELSE IF Head(layers) = "Inline"
    THEN Stack_create_symbol(Tail(layers), self.wrapped, id)
    ELSE LumaSym(Stack_create_symbol(Tail(layers), self.wrapped.value, id))

\* impl Intern: the stack after the call and the call's result
RECURSIVE Stack_intern(_, _, _)
Stack_intern(layers, self, s) ==
    IF layers = <<>> THEN Pool_intern(self, s)
    ELSE IF Head(layers) = "Inline"
    THEN LET packed == pack(s) IN
         IF IsSome(packed)
         THEN [pool |-> self,
               res |-> Ok(InlineSym(Stack_create_symbol(Tail(layers), self.wrapped,
                                                        Unwrap(packed))))]
         ELSE IF Stack_is_full(layers, self)
         THEN [pool |-> self, res |-> Err("PoolOverflow")]
         ELSE LET r == Stack_intern(Tail(layers), self.wrapped, s) IN
              [pool |-> [self EXCEPT !.wrapped = r.pool],
               res |-> IF IsOk(r.res) THEN Ok(InlineSym(r.res.val)) ELSE r.res]
    ELSE IF borrow_mut_panics(self.wrapped)
         THEN [pool |-> self, res |-> BorrowMutError]
         ELSE LET r == Stack_intern(Tail(layers), self.wrapped.value, s) IN
              [pool |-> [self EXCEPT !.wrapped.value = r.pool],
               res |-> IF IsOk(r.res) THEN Ok(LumaSym(r.res.val)) ELSE r.res]

\* impl Resolve: the call's result; the borrows a Luma layer takes end when
\* the caller drops the result
RECURSIVE Stack_resolve(_, _, _)
Stack_resolve(layers, self, sym) ==
    IF layers = <<>> THEN Pool_resolve(self, sym)
    ELSE IF Head(layers) = "Inline"
    THEN LET packed == get_packed_ref(SymId(sym)) IN
         IF packed = SliceOutOfRange THEN Panic("slice index out of range")
         ELSE IF IsSome(packed) THEN Ok(Unwrap(packed))
         ELSE Stack_resolve(Tail(layers), self.wrapped, sym.wrapped)
    ELSE IF borrow_panics(self.wrapped) THEN BorrowError
         ELSE LET r == Stack_resolve(Tail(layers), self.wrapped.value, sym.wrapped) IN
              IF r.tag = "Err" THEN UnwrapOnErr ELSE r

\* Default::default / new() of the stack
RECURSIVE Stack_default(_, _)
Stack_default(layers, next_id) ==
    IF layers = <<>> THEN Pool_default(next_id)
    ELSE IF Head(layers) = "Inline"
    THEN [wrapped |-> Stack_default(Tail(layers), next_id)]
    ELSE Luma_from(Stack_default(Tail(layers), next_id))

(* SpecStack: a program with one stack of two adaptors over a pool with     *)
(* u16 ids, st = S::new(), S one of the four stacks of the composition      *)
(* tests; the caller compares what resolve returns and drops it at once.    *)
Stacks ==
    {<<"Inline", "Inline">>, <<"Luma", "Luma">>,
     <<"Inline", "Luma">>, <<"Luma", "Inline">>}

InitStack ==
    /\ debug \in BOOLEAN
    /\ I = U(2)
    /\ hashfn \in InlineHashFns
    /\ \E layers \in Stacks :
          pools = [p \in {"st"} |-> [layers |-> layers, top |-> Stack_default(layers, 0)]]
    /\ NEXT_POOL_ID = IF debug THEN 1 ELSE "none"
    /\ ret = [p \in {"st"} |-> [s \in ShortStrs \cup LongStrs |-> {}]]
    /\ refs = <<>>
    /\ input = "none"
    /\ threads = <<>>
    /\ last = NoCall

\* st.intern(s)
StackIntern(p, s) ==
    LET r == Stack_intern(pools[p].layers, pools[p].top, s) IN
    /\ pools' = [pools EXCEPT ![p].top = r.pool]
    /\ ret' = IF IsOk(r.res) THEN [ret EXCEPT ![p][s] = @ \cup {r.res.val}] ELSE ret
    /\ last' = Call("intern", p, s, r.res)
    /\ UNCHANGED <<config, threads, NEXT_POOL_ID, refs>>

\* st.resolve(&sym), sym a symbol the caller holds
StackResolve(p, sym) ==
    /\ last' = Call("resolve", p, sym, Stack_resolve(pools[p].layers, pools[p].top, sym))
    /\ UNCHANGED <<config, threads, NEXT_POOL_ID, pools, ret, refs>>

\* st.len(), st.is_full()
StackLenCall(p) ==
    /\ last' = Call("len", p, "none", Ok(Stack_len(pools[p].layers, pools[p].top)))
    /\ UNCHANGED <<config, threads, NEXT_POOL_ID, pools, ret, refs>>

StackIsFullCall(p) ==
    /\ last' = Call("is_full", p, "none", Ok(Stack_is_full(pools[p].layers, pools[p].top)))
    /\ UNCHANGED <<config, threads, NEXT_POOL_ID, pools, ret, refs>>

NextStack ==
    \/ \E p \in DOMAIN pools, s \in DOMAIN hashfn : StackIntern(p, s)
    \/ \E p \in DOMAIN pools, sym \in Issued : StackResolve(p, sym)
    \/ \E p \in DOMAIN pools : StackLenCall(p)
    \/ \E p \in DOMAIN pools : StackIsFullCall(p)

SpecStack == InitStack /\ [][NextStack]_vars

-----------------------------------------------------------------------------
(* The 16-byte symbols of the earlier string interner (short::Pool and its  *)
(* private module).  A Symbol is value: [u64; 2], kept here as the 16 bytes  *)
(* it has in memory on a little-endian target, so that byte 1 is the low    *)
(* byte of value[0].  The pool's map is behind a Mutex that each call locks  *)
(* and unlocks; the program here has one thread.                             *)

\* pub const INLINE_SYMBOL_MAX_LEN
INLINE_SYMBOL_MAX_LEN == 15

\* Inline::new, which makes a private::Inline{len, data}: panics when the
\* name does not fit
Legacy_Inline_new(name) ==
    IF ~(Len(name) <= INLINE_SYMBOL_MAX_LEN)
    THEN Panic("Argument to Inline::new exceeds maximum length")
    ELSE Ok([len |-> Len(name) % 256,
             data |-> [i \in 1..INLINE_SYMBOL_MAX_LEN |->
                          IF i <= Len(name) THEN name[i] ELSE 0]])

\* impl AsRef<str> for Inline
Legacy_Inline_as_ref(x) == SubSeq(x.data, 1, x.len)

\* impl PackFormat for Inline: pack
Legacy_Inline_pack(x) ==
    [i \in 1..16 |-> IF i = 1 THEN ((2 * x.len) % 256) + 1 ELSE x.data[i - 1]]

\* impl PackFormat for Inline: unpack
Legacy_Inline_unpack(sym) ==
    LET len == sym[1] \div 2 IN
    IF sym[1] % 2 # 1 THEN Panic("Invalid tag bit for inlined symbol!")
    ELSE IF ~(len <= INLINE_SYMBOL_MAX_LEN)
    THEN Panic("Symbol length exceeds maximum for inlined symbol")
    ELSE Ok([len |-> len,
             data |-> [i \in 1..INLINE_SYMBOL_MAX_LEN |->
                          IF i <= len THEN sym[i + 1] ELSE 0]])

\* impl PackFormat for Inline: as_slice_from
Legacy_Inline_as_slice_from(sym) ==
    LET len == sym[1] \div 2 IN
    IF sym[1] % 2 # 1 THEN Panic("Invalid tag bit for inlined symbol!")
    ELSE IF ~(len <= INLINE_SYMBOL_MAX_LEN)
    THEN Panic("Symbol length exceeds maximum for inlined symbol")
    ELSE Ok(SubSeq(sym, 2, len + 1))

\* Symbol::type_of: the low bit of value[0]
Symbol_type_of(sym) == IF sym[1] % 2 = 1 THEN "INLINE" ELSE "POOLED"

\* a u64 shifted left by one bit: the top bit is lost
ShlOne(b) ==
    [i \in 1..8 |-> ((2 * b[i]) % 256) + (IF i > 1 THEN b[i - 1] \div 128 ELSE 0)]

\* the address of the program's pool, as the u64 a pointer to it casts to
PoolAddr == ToBytes(4096, 8)

\* impl PackFormat for Pooled{key, pool}: pack
Pooled_pack(x) == x.key \o x.pool

\* impl PackFormat for Pooled: unpack
Pooled_unpack(sym) == [key |-> SubSeq(sym, 1, 8), pool |-> SubSeq(sym, 9, 16)]

\* impl PackFormat for Pooled: as_slice_from, which reads the map of the pool
\* the symbol points to
Pooled_as_slice_from(sym) ==
    LET key == SubSeq(sym, 1, 8)
        map == pools["lp"].map
    IN  IF sym[1] % 2 # 0 THEN Panic("Invalid flag bit for pooled symbol")
        ELSE IF SubSeq(sym, 9, 16) # PoolAddr THEN Panic("invalid memory reference")
        ELSE IF key \notin DOMAIN map THEN Panic("BTreeMap index: key not found")
        ELSE Ok(map[key])

\* impl PackFormat for Unpacked: unpack
Unpacked_unpack(sym) ==
    IF Symbol_type_of(sym) = "POOLED"
    THEN Ok([kind |-> "Pooled", val |-> Pooled_unpack(sym)])
    ELSE LET r == Legacy_Inline_unpack(sym) IN
         IF IsOk(r) THEN Ok([kind |-> "Inline", val |-> r.val]) ELSE r

\* impl AsRef<str> for Symbol: Unpacked::as_slice_from
Symbol_as_ref(sym) ==
    IF Symbol_type_of(sym) = "INLINE" THEN Legacy_Inline_as_slice_from(sym)
    ELSE Pooled_as_slice_from(sym)

\* short::Pool::symbol: the pool after the call and the symbol
Pool_symbol(self, name) ==
    IF Len(name) <= INLINE_SYMBOL_MAX_LEN
    THEN [pool |-> self, res |-> Legacy_Inline_pack(Legacy_Inline_new(name).val)]
    ELSE LET hsh == ShlOne(hash(name))
             map == IF hsh \notin DOMAIN self.map THEN (hsh :> name) @@ self.map
                    ELSE self.map
         IN  [pool |-> [self EXCEPT !.map = map],
              res |-> Pooled_pack([key |-> hsh, pool |-> PoolAddr])]

(* SpecLegacy: a program with one pool, lp = short::Pool::new(), that makes *)
(* Inline values of the strings of the tests, "", "a", "ab", ... up to 15    *)
(* bytes, and of a string of 16 bytes, packs and unpacks them, and interns   *)
(* short and long strings with lp.sym.  The 64-bit digests of the long       *)
(* strings are any of Digests64.                                             *)

\* inline_test_strings!()
TestStrs == {[i \in 1..n |-> 96 + i] : n \in 0..INLINE_SYMBOL_MAX_LEN}

\* strings too long for an Inline: of 16 and of 22 bytes
PooledStrs == {Rep(120, INLINE_SYMBOL_MAX_LEN + 1), Rep(121, 22)}

\* an even digest, an odd one, and the first with the top bit set
Digests64 ==
    {[i \in 1..8 |-> IF i = 1 THEN 2 ELSE 0],
     [i \in 1..8 |-> IF i = 1 THEN 7 ELSE 0],
     [i \in 1..8 |-> IF i = 1 THEN 2 ELSE IF i = 8 THEN 128 ELSE 0]}

\* the strings the program interns with lp.sym
SymStrs == {<<>>, [i \in 1..INLINE_SYMBOL_MAX_LEN |-> 96 + i]} \cup PooledStrs

InitLegacy ==
    /\ debug = FALSE
    /\ I = U(8)
    /\ hashfn \in [PooledStrs -> Digests64]
    /\ pools = [p \in {"lp"} |-> [map |-> EmptyMap]]
    /\ NEXT_POOL_ID = "none"
    /\ ret = [p \in {"lp"} |-> [s \in SymStrs |-> {}]]
    /\ refs = <<>>
    /\ input = "none"
    /\ threads = <<>>
    /\ last = NoCall

\* Inline::new(name)
LegacyInlineNew(name) ==
    /\ last' = Call("Inline::new", "none", name, Legacy_Inline_new(name))
    /\ UNCHANGED <<config, threads, NEXT_POOL_ID, pools, ret, refs>>

\* x.pack(), x the Inline that Inline::new or unpack just returned
LegacyPack ==
    /\ last.op \in {"Inline::new", "unpack"} /\ IsOk(last.res)
    /\ last.op = "unpack" => last.res.val.kind = "Inline"
    /\ LET x == IF last.op = "unpack" THEN last.res.val.val ELSE last.res.val IN
       last' = Call("pack", "none", x, Ok(Legacy_Inline_pack(x)))
    /\ UNCHANGED <<config, threads, NEXT_POOL_ID, pools, ret, refs>>

\* the symbols at hand: those lp.sym returned and the one pack just returned
LegacySyms == Issued \cup (IF last.op = "pack" THEN {last.res.val} ELSE {})

\* sym.unpack()
LegacyUnpack(sym) ==
    /\ last' = Call("unpack", "none", sym, Unpacked_unpack(sym))
    /\ UNCHANGED <<config, threads, NEXT_POOL_ID, pools, ret, refs>>

\* sym.as_ref()
LegacyAsRef(sym) ==
    /\ last' = Call("as_ref", "none", sym, Symbol_as_ref(sym))
    /\ UNCHANGED <<config, threads, NEXT_POOL_ID, pools, ret, refs>>

\* sym.type_of()
LegacyTypeOf(sym) ==
    /\ last' = Call("type_of", "none", sym, Ok(Symbol_type_of(sym)))
    /\ UNCHANGED <<config, threads, NEXT_POOL_ID, pools, ret, refs>>

\* lp.sym(name).0
LegacySym(p, name) ==
    LET r == Pool_symbol(pools[p], name) IN
    /\ pools' = [pools EXCEPT ![p] = r.pool]
    /\ ret' = [ret EXCEPT ![p][name] = @ \cup {r.res}]
    /\ last' = Call("sym", p, name, Ok(r.res))
    /\ UNCHANGED <<config, threads, NEXT_POOL_ID, refs>>

NextLegacy ==
    \/ \E name \in TestStrs \cup PooledStrs : LegacyInlineNew(name)
    \/ LegacyPack
    \/ \E sym \in LegacySyms : LegacyUnpack(sym)
    \/ \E sym \in LegacySyms : LegacyAsRef(sym)
    \/ \E sym \in LegacySyms : LegacyTypeOf(sym)
    \/ \E p \in DOMAIN pools, name \in SymStrs : LegacySym(p, name)

SpecLegacy == InitLegacy /\ [][NextLegacy]_vars

-----------------------------------------------------------------------------
(* Claims about basic::Pool *)

IsCall(c, op, p) == c.op = op /\ c.pool = p

\* the state in print: the results of different calls are values of
\* different kinds, which are compared by what they print as
shown == ToString(vars)

\* the symbols instance p issued
IssuedBy(p) == UNION {ret[p][v] : v \in DOMAIN ret[p]}

\* the positions of lookup_vec that hold value v
Positions(self, v) == {i \in 0..(Pool_len(self) - 1) : VecGet(self.lookup_vec, i) = v}

\* C1: dedup idempotence.  All the intern(v) calls on a pool that succeeded
\* returned the same symbol, an intern call grows len() by at most one, an
\* intern(v) call after a successful intern(v) does not grow it, and so v
\* accounts for at most one entry however often it is interned.
C1_DedupIdempotent ==
    [][\A p \in DOMAIN pools : \A v \in DOMAIN hashfn :
          /\ Cardinality(ret'[p][v]) <= 1
          /\ Cardinality(Positions(pools'[p], v)) <= 1
          /\ (IsCall(last', "intern", p) /\ last'.arg = v) =>
                /\ Pool_len(pools'[p]) <= Pool_len(pools[p]) + 1
                /\ (ret[p][v] # {} => /\ Pool_len(pools'[p]) = Pool_len(pools[p])
                                      /\ IsOk(last'.res)
                                      /\ ret[p][v] = {last'.res.val})]_shown

\* a second intern of the value stored first succeeded, in a pool that holds
\* other values too
C1_Witness ==
    /\ IsCall(last, "intern", "p1") /\ IsOk(last.res)
    /\ Pool_len(pools.p1) >= 2
    /\ VecGet(pools.p1.lookup_vec, 0) = last.arg
    /\ ret.p1[last.arg] = {last.res.val}

\* C2: round-trip.  When intern(v) returned Ok(s), resolve(s) on the same
\* pool returns Ok(v).
C2_RoundTrip ==
    \A p \in DOMAIN pools :
        (IsCall(last, "intern", p) /\ IsOk(last.res)) =>
            Pool_resolve(pools[p], last.res.val) = Ok(last.arg)

\* C3: overflow boundary, M = max_value().  A pool on which M + 1 distinct
\* values were interned is full; a full pool answers PoolOverflow to every
\* value it does not store and Ok(original symbol) to every value it stores;
\* a pool with fewer than M + 1 entries is not full.
Interned(p) == {v \in DOMAIN ret[p] : ret[p][v] # {}}
Stored(self) == {VecGet(self.lookup_vec, i) : i \in 0..(Pool_len(self) - 1)}
C3_OverflowBoundary ==
    \A p \in DOMAIN pools :
        /\ Cardinality(Interned(p)) >= IdMax + 1 => Pool_is_full(pools[p])
        /\ Pool_is_full(pools[p]) =>
              \A v \in DOMAIN hashfn :
                  IF v \in Stored(pools[p])
                  THEN /\ IsOk(Pool_intern(pools[p], v).res)
                       /\ ret[p][v] = {Pool_intern(pools[p], v).res.val}
                  ELSE Pool_intern(pools[p], v).res = Err("PoolOverflow")
        /\ Pool_len(pools[p]) < IdMax + 1 => ~Pool_is_full(pools[p])

\* C4 as stated: resolving on one pool a symbol another pool issued never
\* returns Ok with a value other than the one the symbol was issued for.
C4_CrossPoolNeverOk ==
    \A p \in DOMAIN pools : \A q \in DOMAIN pools \ {p} :
        (IsCall(last, "resolve", p) /\ last.arg \in IssuedBy(q) /\ IsOk(last.res)) =>
            \E v \in DOMAIN ret[q] : last.arg \in ret[q][v] /\ last.res.val = v

\* C4 as amended: resolving on pool p a symbol another pool issued panics in
\* the debug configuration; in the release configuration it returns
\* Err(NoSuchSymbol) when the symbol's id is not an index of p and Ok of the
\* value p stores at that index when it is.
C4_CrossPoolAmended ==
    \A p \in DOMAIN pools : \A q \in DOMAIN pools \ {p} :
        (IsCall(last, "resolve", p) /\ last.arg \in IssuedBy(q)) =>
            IF debug THEN last.res = Panic("check_matching_pool")
            ELSE IF last.arg.id < Pool_len(pools[p])
                 THEN last.res = Ok(VecGet(pools[p].lookup_vec, last.arg.id))
                 ELSE last.res = Err("NoSuchSymbol")

\* p2 was asked to resolve a symbol of p1 whose id is an index of p2, where
\* p2 stores another value than p1; and the same in the debug configuration
C4_WitnessRelease ==
    /\ ~debug /\ IsCall(last, "resolve", "p2") /\ last.arg \in IssuedBy("p1")
    /\ IsOk(last.res) /\ last.res.val # VecGet(pools.p1.lookup_vec, last.arg.id)
C4_Witness ==
    /\ debug /\ IsCall(last, "resolve", "p2") /\ last.arg \in IssuedBy("p1")
    /\ last.arg.id < Pool_len(pools.p2)
    /\ VecGet(pools.p2.lookup_vec, last.arg.id) # VecGet(pools.p1.lookup_vec, last.arg.id)

-----------------------------------------------------------------------------
(* Claims about adaptors::Inline and the Pack functions *)

\* the index in the wrapped pool that a delegated id stands for is in range
ValidIndex(self, id) == ~NumGe(to_usize(id), Usize(Inline_len(self)))

\* x >> 1 for an integer given by its bytes
Shr1(b) ==
    [i \in 1..Len(b) |->
        (b[i] \div 2) + (IF i < Len(b) THEN (b[i + 1] % 2) * 128 ELSE 0)]

\* C5: in every state of the adaptor, an intern call on a string shorter
\* than the id type leaves the adaptor, and so the wrapped pool's len, entries
\* and index, as it was and returns a symbol; resolve on that symbol returns
\* Ok of the string, and returns the same on an adaptor whose wrapped pool is
\* another, empty, pool: it does not read the wrapped pool.
C5_InlineTransparency ==
    [][(last'.op = "intern" /\ Len(last'.arg) < I.N) =>
          /\ pools' = pools
          /\ IsOk(last'.res)
          /\ Inline_resolve(pools'["in"], last'.res.val) = Ok(last'.arg)
          /\ Inline_resolve(Inline_default(NEXT_POOL_ID), last'.res.val)
                = Ok(last'.arg)]_shown

\* a string of N - 1 bytes was interned on a full adaptor with stored entries
C5_Witness ==
    /\ last.op = "intern" /\ Len(last.arg) = I.N - 1
    /\ IsOk(last.res)
    /\ Inline_is_full(pools["in"])
    /\ Inline_resolve(pools["in"], last.res.val) = Ok(last.arg)

C7_PackRoundTrip ==
    /\ (last.op = "pack" /\ Len(input) < I.N) =>
          /\ IsSome(last.res)
          /\ get_packed_ref(Unwrap(last.res)) = Some(input)
    /\ (last.op = "get_packed_ref" /\ Some(last.arg) = pack(input)) =>
          last.res = Some(input)
    /\ (last.op = "get_packed_ref" /\ last.arg[I.N] < 128) => last.res = None

\* a string of seven bytes with a two-byte character came back from a u64
C7_Witness ==
    /\ I.N = 8
    /\ last.op = "get_packed_ref"
    /\ Len(input) = 7 /\ \E i \in 1..7 : input[i] = 195
    /\ last.res = Some(input)

\* C8: every symbol the adaptor issued for a string shorter than the id type
\* has an id >= msb_mask, which get_packed_ref unpacks to the string, and
\* every symbol it issued for a longer string has an id < msb_mask, which
\* get_packed_ref does not unpack and which is an index of the wrapped pool.
C8_TagUnambiguity ==
    \A s \in DOMAIN ret["in"] : \A sym \in ret["in"][s] :
        LET id == sym.wrapped.id IN
        IF Len(s) < I.N
        THEN is_inlined(id) /\ get_packed_ref(id) = Some(s)
        ELSE /\ ~is_inlined(id)
             /\ get_packed_ref(id) = None
             /\ ValidIndex(pools["in"], id)

\* the adaptor issued the largest id below msb_mask, and inlined symbols
C8_Witness ==
    /\ \E s \in LongStrs : \E sym \in ret["in"][s] :
          NumGe(sym.wrapped.id, MaxClear)
    /\ \E s \in ShortStrs : ret["in"][s] # {}
    /\ last.op = "intern" /\ last.res = Err("PoolOverflow")

\* C9, as stated: is_full() is true exactly when the wrapped pool's len()
\* has reached M / 2, M the maximum value of the id type.
C9_FullAtHalfOfMax ==
    last.op = "is_full" =>
        last.res = Ok(NumGe(Usize(Inline_len(pools["in"])),
                            to_usize(Shr1(max_value))))

\* C9, amended: is_full() is true exactly when the wrapped pool's len() is
\* greater than M / 2, that is when it has reached 2^(8N-1) = M / 2 + 1; the
\* strings handled by inlining take no part in the result.
C9_FullAboveHalfOfMax ==
    last.op = "is_full" =>
        last.res = Ok(~NumGe(to_usize(Shr1(max_value)),
                             Usize(Inline_len(pools["in"]))))

\* is_full() answered true at len() = M / 2 + 1, after inlined interns
C9_Witness ==
    /\ last.op = "is_full" /\ last.res = Ok(TRUE)
    /\ Usize(Inline_len(pools["in"]) - 1) = to_usize(Shr1(max_value))
    /\ \E s \in ShortStrs : ret["in"][s] # {}

-----------------------------------------------------------------------------
(* Claims about adaptors::Luma *)

\* C10: an intern call on a Luma adaptor made while a Ref that resolve
\* returned is alive panics with BorrowMutError and leaves the adaptor, and
\* so the wrapped pool's entries, index and len, as it was; the live Refs
\* point to the same values as before.
C10_InternWithLiveRef ==
    [][(last'.op = "intern" /\ refs # <<>>) =>
          /\ last'.res = BorrowMutError
          /\ pools' = pools
          /\ refs' = refs
          /\ \A i \in 1..Len(refs) :
                VecGet(pools'[refs[i].pool].wrapped.value.lookup_vec, refs[i].idx)
                    = Deref(refs[i])]_shown

\* intern of a value the pool does not hold panicked while a Ref was alive
C10_Witness ==
    /\ last.op = "intern" /\ last.res = BorrowMutError
    /\ refs # <<>>
    /\ MapGet(pools["lu"].wrapped.value.ids_map, hash(last.arg)) = None
    /\ ~Luma_is_full(pools["lu"])

\* C11: a Luma adaptor never has an exclusive borrow (an intern call in
\* progress) together with a shared borrow (a live Ref from resolve), and
\* never two exclusive borrows; its RefCell's flag says which borrows are
\* alive.  An intern call made while any borrow is alive panics with
\* BorrowMutError, a resolve, len, is_empty or is_full call made while the
\* exclusive borrow is alive panics with BorrowError, and neither changes
\* anything; a resolve call made while only Refs are alive adds a Ref.
C11_SingleWriterMultiReader ==
    [][/\ Len(input') <= 1
       /\ ~(input' # <<>> /\ refs' # <<>>)
       /\ pools'["lu"].wrapped.borrow = IF input' # <<>> THEN -1 ELSE Len(refs')
       /\ (last'.op = "intern" /\ input' = input /\ (input # <<>> \/ refs # <<>>)) =>
             last'.res = BorrowMutError /\ pools' = pools /\ refs' = refs
       /\ (last'.op \in {"resolve", "len", "is_empty", "is_full"} /\ input # <<>>) =>
             last'.res = BorrowError /\ pools' = pools /\ refs' = refs
       /\ (last'.op = "resolve" /\ input = <<>>) =>
             IsOk(last'.res) /\ Len(refs') = Len(refs) + 1]_shown

\* a resolve call made by the Hash implementation while intern ran panicked
C11_Witness ==
    /\ input # <<>>
    /\ last.op = "resolve" /\ last.res = BorrowError
    /\ pools["lu"].wrapped.borrow = -1

\* C12: in every reachable state of a base pool whose id type has maximum
\* value M, len() <= M + 1, is_full() is true exactly when len() = M + 1, and
\* an empty pool is not full; the is_full call answers the same.
C12_CapacityInvariant ==
    \A p \in DOMAIN pools :
        /\ Pool_len(pools[p]) <= max_value + 1
        /\ Pool_is_full(pools[p]) <=> Pool_len(pools[p]) = max_value + 1
        /\ Pool_is_empty(pools[p]) => ~Pool_is_full(pools[p])
        /\ IsCall(last, "is_full", p) =>
              last.res = Ok(Pool_len(pools[p]) = max_value + 1)

\* is_full() answered true on a pool of M + 1 entries
C12_Witness ==
    /\ IsCall(last, "is_full", "p1") /\ last.res = Ok(TRUE)
    /\ Pool_len(pools.p1) = max_value + 1

\* C13: in every reachable state of a base pool, every id recorded in
\* ids_map is a position of lookup_vec, the value stored there hashes to the
\* key recorded for the id, and every position of lookup_vec is the target of
\* exactly one key.
C13_IndexInvariant ==
    \A p \in DOMAIN pools :
        LET m == pools[p].ids_map.rest
            vec == pools[p].lookup_vec
        IN  /\ pools[p].ids_map.fill = 0 /\ vec.fill = 0
            /\ \A key \in DOMAIN m :
                  /\ m[key] < VecLen(vec)
                  /\ hash(VecGet(vec, m[key])) = key
            /\ \A i \in 0..(VecLen(vec) - 1) :
                  Cardinality({key \in DOMAIN m : m[key] = i}) = 1

\* a pool of two entries was given a third value, whose hash is the key of
\* the second entry
C13_Witness ==
    /\ IsCall(last, "intern", "p1") /\ IsOk(last.res)
    /\ Pool_len(pools.p1) = 2
    /\ last.arg \notin Stored(pools.p1)
    /\ last.res.val.id = 1

\* C14: no call on a base pool makes len() smaller or changes or removes a
\* stored entry, so a symbol the caller holds that resolves to Ok(v) before a
\* call resolves to Ok(v) after it, and in every later state of the pool.
C14_AppendOnly ==
    [][\A p \in DOMAIN pools :
          \/ pools'[p] = pools[p]
          \/ /\ Pool_len(pools'[p]) >= Pool_len(pools[p])
             /\ \A i \in 0..(Pool_len(pools[p]) - 1) :
                   VecGet(pools'[p].lookup_vec, i) = VecGet(pools[p].lookup_vec, i)
             /\ \A s \in Issued :
                   LET r == Pool_resolve(pools[p], s) IN
                   IsOk(r) => Pool_resolve(pools'[p], s) = r]_shown

\* the symbol issued first resolved to the first entry of a full pool
C14_Witness ==
    /\ IsCall(last, "resolve", "p1") /\ last.arg.id = 0
    /\ last.res = Ok(VecGet(pools.p1.lookup_vec, 0))
    /\ Pool_is_full(pools.p1)

\* C15: on one base pool, two values that are not equal and were both
\* interned have symbols that are not equal and are both stored, whether or
\* not their hashes are the same.
C15_ExactValueDedup ==
    \A p \in DOMAIN pools : \A v \in Interned(p) : \A w \in Interned(p) \ {v} :
        /\ ret[p][v] \cap ret[p][w] = {}
        /\ v \in Stored(pools[p]) /\ w \in Stored(pools[p])

C17_IdentityUnique ==
    debug => \A p \in DOMAIN pools : \A q \in DOMAIN pools \ {p} :
                 pools[p].pool_id # pools[q].pool_id

C19_OverflowOnlyForNew ==
    last.op = "intern" =>
        LET s == last.arg IN
        /\ last.res = Err("PoolOverflow") =>
              /\ Len(s) >= I.N
              /\ ret["in"][s] = {}
              /\ Inline_is_full(pools["in"])
        /\ (Len(s) >= I.N /\ ret["in"][s] # {}) =>
              IsOk(last.res) /\ ret["in"][s] = {last.res.val}

\* C20: an intern call on a string too long to inline returns
\* Err(PoolOverflow) and leaves the adaptor as it was when the adaptor's
\* is_full() is true; when it is false the wrapped pool becomes what its own
\* intern makes of it and the call returns the wrapped pool's result, an Ok
\* symbol wrapped in the adaptor's symbol type, an error as it is.
C20_FailFastOnFull ==
    [][(last'.op = "intern" /\ Len(last'.arg) >= I.N) =>
          IF Inline_is_full(pools["in"])
          THEN last'.res = Err("PoolOverflow") /\ pools' = pools
          ELSE LET r == Pool_intern(pools["in"].wrapped, last'.arg) IN
               /\ pools'["in"].wrapped = r.pool
               /\ last'.res = IF IsOk(r.res) THEN Ok(InlineSym(r.res.val))
                              ELSE r.res]_shown

\* a full adaptor refused a string it had not seen, after it had delegated
\* others
C20_Witness ==
    /\ last.op = "intern" /\ Len(last.arg) >= I.N
    /\ last.res = Err("PoolOverflow")
    /\ ret["in"][last.arg] = {}
    /\ \E s \in LongStrs : ret["in"][s] # {}
    /\ Inline_is_full(pools["in"])

\* C21, as stated: for a string of L < N bytes, the most significant byte of
\* the packed id holds (L << 1) | 1, and the other N - 1 bytes hold the
\* string's bytes followed by zeros.
C21_TagByteShifted ==
    (last.op = "pack" /\ Len(input) < I.N) =>
        /\ IsSome(last.res)
        /\ Unwrap(last.res)[I.N] = 2 * Len(input) + 1
        /\ \A i \in 1..(I.N - 1) :
              Unwrap(last.res)[i] = IF i <= Len(input) THEN input[i] ELSE 0

\* C21, amended: for a string of L < N bytes, the most significant byte of
\* the packed id holds L | 0x80 (the length in the low seven bits, the top
\* bit set as the inline tag), and the other N - 1 bytes hold the string's
\* bytes, in order from the least significant byte, followed by zeros.
C21_TagByteTopBit ==
    (last.op = "pack" /\ Len(input) < I.N) =>
        /\ IsSome(last.res)
        /\ Unwrap(last.res)[I.N] = Len(input) + 128
        /\ \A i \in 1..(I.N - 1) :
              Unwrap(last.res)[i] = IF i <= Len(input) THEN input[i] ELSE 0

\* a string of three bytes was packed into a u64: 0x83 on top, four zeros
C21_Witness ==
    /\ I.N = 8
    /\ last.op = "pack" /\ Len(input) = 3
    /\ IsSome(last.res)
    /\ Unwrap(last.res)[8] = 131
    /\ \A i \in 4..7 : Unwrap(last.res)[i] = 0

\* the strings too long to inline that were interned with success: those of
\* the filling loop and those the caller interned after it
LongInterned(p) ==
    pools[p].wrapped.lookup_vec.fill
        + Cardinality({s \in LongStrs : ret[p][s] # {}})

\* C22: in every state of an Inline adaptor, after successful and failed
\* interns, len() is the wrapped pool's len() and is the number of distinct
\* strings of N or more bytes that were interned with success; is_empty() is
\* true exactly when that number is zero, however many shorter strings were
\* interned; the len and is_empty calls answer the same.
C22_InlineLenAccounting ==
    \A p \in DOMAIN pools :
        /\ Inline_len(pools[p]) = Pool_len(pools[p].wrapped)
        /\ Inline_len(pools[p]) = LongInterned(p)
        /\ Inline_is_empty(pools[p]) <=> LongInterned(p) = 0
        /\ IsCall(last, "len", p) => last.res = Ok(LongInterned(p))
        /\ IsCall(last, "is_empty", p) => last.res = Ok(LongInterned(p) = 0)

\* the entries of the wrapped pool, and the strings interned with success
Entries(p) == pools[p].wrapped.lookup_vec.tail
Accepted(p) == {s \in DOMAIN ret[p] : ret[p][s] # {}}

\* C26, as stated: with u64 ids "x" and "xy" get inline-tagged symbols and
\* leave the wrapped pool's len() at 0, strings of up to 7 bytes are inlined,
\* and an interned string occupies a slot of the wrapped pool exactly when
\* its length is 7 bytes or more.
C26_SlotFromSevenBytes ==
    /\ \A s \in Accepted("in") : \A sym \in ret["in"][s] :
          /\ Len(s) <= 2 => is_inlined(sym.wrapped.id)
          /\ Len(s) <= 7 => is_inlined(sym.wrapped.id)
    /\ (\A s \in Accepted("in") : Len(s) <= 2) => Inline_len(pools["in"]) = 0
    /\ \A s \in Accepted("in") :
          (\E i \in 1..Len(Entries("in")) : Entries("in")[i] = s) <=> Len(s) >= 7

\* C26, amended: with u64 ids "x" and "xy" get inline-tagged symbols and
\* leave the wrapped pool's len() at 0; a string of up to 7 bytes is inlined
\* and takes no slot, and a string of 8 bytes or more is handed to the
\* wrapped pool: its symbol is not inline-tagged, only such strings occupy
\* slots of the wrapped pool, and len() is the number of distinct digests
\* among them.
C26_SlotFromEightBytes ==
    /\ \A s \in Accepted("in") : \A sym \in ret["in"][s] :
          is_inlined(sym.wrapped.id) <=> Len(s) <= 7
    /\ (\A s \in Accepted("in") : Len(s) <= 7) => Inline_len(pools["in"]) = 0
    /\ (\E s \in Accepted("in") : Len(s) >= 8) => Inline_len(pools["in"]) >= 1
    /\ \A i \in 1..Len(Entries("in")) :
          Len(Entries("in")[i]) >= 8 /\ Entries("in")[i] \in Accepted("in")
    /\ IsCall(last, "len", "in") =>
          last.res = Ok(Cardinality({hash(s) : s \in {x \in Accepted("in") : Len(x) >= 8}}))

\* len() answered 0 after "x", "xy" and a string of seven bytes were interned
C26_Witness ==
    /\ IsCall(last, "len", "in") /\ last.res = Ok(0)
    /\ {<<120>>, <<120, 121>>, Rep(120, 7)} \subseteq Accepted("in")

\* C23: when the wrapped pool's resolve returns Err(NoSuchSymbol) for the
\* symbol given, Luma's resolve returns that Err and does not panic; when
\* the wrapped pool's intern returns Err(PoolOverflow), an intern call that
\* got hold of the wrapped pool returns that Err.
C23_LumaErrAsValue ==
    \A p \in DOMAIN pools :
        /\ (/\ IsCall(last, "resolve", p)
            /\ Pool_resolve(pools[p].wrapped.value, last.arg.wrapped)
                  = Err("NoSuchSymbol")) =>
              last.res = Err("NoSuchSymbol")
        /\ (/\ IsCall(last, "intern", p)
            /\ last.res # BorrowMutError
            /\ Pool_intern(pools[p].wrapped.value, last.arg).res
                  = Err("PoolOverflow")) =>
              last.res = Err("PoolOverflow")

-----------------------------------------------------------------------------
(* Claims about stacked adaptors *)

\* C24: for each of the four stacks of two adaptors over a base pool, every
\* string that intern accepted resolves through the same stack to Ok of that
\* string, whether a layer inlined it or the base pool stores it, and two
\* distinct strings never have the same symbol.
C24_StackRoundTrip ==
    \A p \in DOMAIN pools :
        /\ \A s \in DOMAIN ret[p] : \A sym \in ret[p][s] :
              Stack_resolve(pools[p].layers, pools[p].top, sym) = Ok(s)
        /\ \A s \in DOMAIN ret[p] : \A t \in DOMAIN ret[p] \ {s} :
              ret[p][s] \cap ret[p][t] = {}

-----------------------------------------------------------------------------
(* Claims about symbols *)

\* C25, as stated: in both build configurations two symbols compare equal
\* exactly when their raw ids are equal, the first symbols of two different
\* pools included; comparing or copying and dropping a symbol changes no pool.
C25_EqualIffSameId ==
    [][/\ last'.op = "eq" =>
             last'.res = Ok(last'.arg[1].id = last'.arg[2].id)
       /\ last'.op \in {"eq", "consume"} => pools' = pools]_shown

\* C25, amended: two symbols compare equal exactly when their raw ids are
\* equal and, in the debug configuration, they carry the same pool identity;
\* so symbols of one pool are equal exactly when their raw ids are, in both
\* configurations, and the first symbols of two pools are equal in the
\* release configuration only.  Comparing or copying and dropping a symbol
\* changes no pool, and the symbol resolves as before.
C25_EqualIffSameIdAndPool ==
    [][/\ last'.op = "eq" =>
             LET a == last'.arg[1]
                 b == last'.arg[2]
             IN  /\ last'.res = Ok(a.id = b.id /\ (debug => a.pool_id = b.pool_id))
                 /\ \A p \in DOMAIN pools :
                       (a \in IssuedBy(p) /\ b \in IssuedBy(p)) =>
                           last'.res = Ok(a.id = b.id)
       /\ last'.op \in {"eq", "consume"} =>
             /\ pools' = pools
             /\ \A p \in DOMAIN pools : \A s \in Issued :
                   Pool_resolve(pools'[p], s) = Pool_resolve(pools[p], s)]_shown

\* in the debug configuration the first symbol of p1 was compared with the
\* first symbol of p2 and they were not equal
C25_Witness ==
    /\ debug
    /\ last.op = "eq" /\ last.res = Ok(FALSE)
    /\ last.arg[1].id = 0 /\ last.arg[2].id = 0
    /\ last.arg[1] \in IssuedBy("p1") /\ last.arg[2] \in IssuedBy("p2")

-----------------------------------------------------------------------------
(* Claims about the ids a base pool assigns *)

\* C27: in a base pool created empty, an intern call that stores its value
\* appends it as entry len() - 1 and returns that position as the id, so the
\* k-th value stored has id k - 1; in every state the ids of the symbols
\* issued are exactly 0, ..., len() - 1, and every symbol issued for a stored
\* value carries the position of that value, so no id belongs to two stored
\* values.
C27_SequentialIds ==
    [][\A p \in DOMAIN pools :
          LET vec == pools'[p].lookup_vec
              syms == UNION {ret'[p][v] : v \in DOMAIN ret'[p]}
          IN  /\ (IsCall(last', "intern", p) /\ pools'[p] # pools[p]) =>
                    /\ VecLen(vec) = Pool_len(pools[p]) + 1
                    /\ VecGet(vec, VecLen(vec) - 1) = last'.arg
                    /\ IsOk(last'.res)
                    /\ last'.res.val.id = VecLen(vec) - 1
              /\ {s.id : s \in syms} = 0..(VecLen(vec) - 1)
              /\ \A v \in Stored(pools'[p]) : \A s \in ret'[p][v] :
                    VecGet(vec, s.id) = v]_shown

\* the third value stored got id 2, in a pool that was also given a value
\* it does not store
C27_Witness ==
    /\ IsCall(last, "intern", "p1") /\ IsOk(last.res)
    /\ last.res.val.id = 2 /\ Pool_len(pools.p1) = 3
    /\ VecGet(pools.p1.lookup_vec, 2) = last.arg
    /\ ret.p1[last.arg] = {last.res.val}
    /\ Interned("p1") \ Stored(pools.p1) # {}

\* C28: the outcome of intern(v) on a base pool is a function of the pool's
\* state and v.  It is Err exactly when the key hash(v) is absent from ids_map
\* and is_full() is true, and the error is then PoolOverflow; in every other
\* case it is Ok, of the id recorded for the key or of the position appended
\* at; the expect on the id conversion never fails; and the same call made
\* again on a pool the call left as it was has the same outcome.
C28_OverflowOnlyError ==
    [][\A p \in DOMAIN pools :
          IsCall(last', "intern", p) =>
              LET v == last'.arg
                  found == MapGet(pools[p].ids_map, hash(v))
                  full == Pool_is_full(pools[p])
              IN  /\ last'.res.tag \in {"Ok", "Err"}
                  /\ last'.res.tag = "Err" <=> (~IsSome(found) /\ full)
                  /\ last'.res.tag = "Err" => last'.res = Err("PoolOverflow")
                  /\ last'.res.tag = "Ok" =>
                        last'.res.val.id = IF IsSome(found) THEN Unwrap(found)
                                           ELSE Pool_len(pools[p])
                  /\ pools'[p] = pools[p] =>
                        Pool_intern(pools'[p], v).res = last'.res]_shown

\* a full pool refused a value whose key it does not hold, and the same
\* call on the pool the refusal left behind is refused too
C28_Witness ==
    /\ IsCall(last, "intern", "p1") /\ last.res = Err("PoolOverflow")
    /\ Pool_is_full(pools.p1)
    /\ ~IsSome(MapGet(pools.p1.ids_map, hash(last.arg)))
    /\ Pool_intern(pools.p1, last.arg).res = Err("PoolOverflow")

\* C29: on a base pool, an intern call that returns Err(PoolOverflow) and an
\* intern call on a value the pool stores leave lookup_vec, ids_map and
\* pool_id as they were; resolve, len, is_empty and is_full change no pool;
\* a pool changes only in an intern call on a value it does not store, made
\* while it is not full; and every such call appends exactly one entry, the
\* value, and adds exactly one key to ids_map.
C29_NonInsertingFrame ==
    [][\A p \in DOMAIN pools :
          LET isNew == last'.arg \notin Stored(pools[p])
              room == ~Pool_is_full(pools[p])
          IN  /\ (IsCall(last', "intern", p) /\ (~IsOk(last'.res) \/ ~isNew)) =>
                    pools'[p] = pools[p]
              /\ last'.op \in {"resolve", "len", "is_empty", "is_full"} =>
                    pools' = pools
              /\ pools'[p] # pools[p] =>
                    IsCall(last', "intern", p) /\ isNew /\ room
              /\ (IsCall(last', "intern", p) /\ isNew /\ room) =>
                    /\ pools'[p].lookup_vec = VecPush(pools[p].lookup_vec, last'.arg)
                    /\ Cardinality(DOMAIN pools'[p].ids_map.rest)
                          = Cardinality(DOMAIN pools[p].ids_map.rest) + 1
                    /\ pools'[p].pool_id = pools[p].pool_id]_shown

-----------------------------------------------------------------------------
(* Claims about resolve_unchecked *)

\* C30: for every symbol a base pool issued, in every later state of that
\* pool, resolve_unchecked has one outcome, the value that resolve returns
\* inside Ok, and a resolve_unchecked call returns it; for any symbol the
\* caller holds the two differ only where resolve does not return Ok, which is
\* where the bounds check or, in the debug configuration, the identity check
\* of resolve stops it.
C30_UncheckedAgrees ==
    \A p \in DOMAIN pools :
        /\ \A s \in IssuedBy(p) :
              /\ IsOk(Pool_resolve(pools[p], s))
              /\ Pool_resolve_unchecked(pools[p], s) = {Pool_resolve(pools[p], s)}
              /\ (IsCall(last, "resolve_unchecked", p) /\ last.arg = s) =>
                    last.res = Pool_resolve(pools[p], s)
        /\ \A s \in Issued :
              LET r == Pool_resolve(pools[p], s)
                  inBounds == s.id < Pool_len(pools[p])
              IN  /\ IsOk(r) => Pool_resolve_unchecked(pools[p], s) = {r}
                  /\ ~IsOk(r) => \/ ~inBounds /\ r = Err("NoSuchSymbol")
                                 \/ /\ debug /\ s.pool_id # pools[p].pool_id
                                    /\ r = Panic("check_matching_pool")
                  /\ inBounds => Pool_resolve_unchecked(pools[p], s)
                                    = {Ok(VecGet(pools[p].lookup_vec, s.id))}

\* resolve_unchecked returned the first entry of a pool that has grown
\* since it issued the symbol
C30_Witness ==
    /\ IsCall(last, "resolve_unchecked", "p1")
    /\ last.arg \in IssuedBy("p1") /\ last.arg.id = 0
    /\ Pool_len(pools.p1) >= 2
    /\ last.res = Ok(VecGet(pools.p1.lookup_vec, 0))
    /\ Pool_resolve(pools.p1, last.arg) = last.res

-----------------------------------------------------------------------------
(* Claims about Inline and Luma, continued *)

\* C31: in every state of an Inline adaptor, a full adaptor included, intern
\* of a string shorter than the id type returns Ok, and it does so too on an
\* adaptor made from a wrapped pool that is itself full; an intern call that
\* returned Err(PoolOverflow) was given a string at least as long as the id
\* type.
C31_InlinableNeverFails ==
    /\ \A s \in ShortStrs :
          /\ IsOk(Inline_intern(pools["in"], s).res)
          /\ I.N = 2 =>
                IsOk(Inline_intern([wrapped |-> Filled(FromBytes(max_value) + 1, 0)], s).res)
    /\ last.op = "intern" =>
          /\ Len(last.arg) < I.N => IsOk(last.res)
          /\ ~IsOk(last.res) => last.res = Err("PoolOverflow") /\ Len(last.arg) >= I.N

\* on a full adaptor a string too long to inline was refused and a string
\* one byte shorter than the id, ending in NUL, is accepted
C31_Witness ==
    /\ Inline_is_full(pools["in"])
    /\ last.op = "intern" /\ last.arg = Rep(120, I.N - 2) \o <<0>>
    /\ IsOk(last.res) /\ is_inlined(last.res.val.wrapped.id)
    /\ \E s \in LongStrs : Inline_intern(pools["in"], s).res = Err("PoolOverflow")

C33_PackInjective ==
    (last.op = "pack" /\ Len(input) < I.N) =>
        /\ last.res = pack(input) /\ IsSome(last.res)
        /\ \A t \in BinStrs(I.N - 1) :
              LET in == Inline_default(0) IN
              /\ pack(t) = last.res <=> t = input
              /\ Inline_intern(in, t).res = Inline_intern(in, input).res <=> t = input
              /\ Inline_intern(in, t).res = Ok(InlineSym(create_symbol(in.wrapped, Unwrap(pack(t)))))
              /\ Inline_intern(in, t).pool = in

\* a string of six bytes that ends in NUL was packed into a u64, and the
\* string without the NUL packs to another id
C33_Witness ==
    /\ I.N = 8 /\ last.op = "pack"
    /\ Len(input) = 6 /\ input[6] = 0 /\ input[5] = 120
    /\ last.res = pack(input)
    /\ pack(SubSeq(input, 1, 5)) # last.res

\* the live Refs into adaptor p
RefsInto(p) == {i \in 1..Len(refs) : refs[i].pool = p}

\* C34: when an intern call on a Luma adaptor has returned, with Ok or with
\* Err, no exclusive borrow is left, and symbols hold no borrow: the borrow
\* flag counts the live Refs and nothing else.  So an intern call made while
\* no Ref is alive never panics on the borrow, however many intern calls came
\* before it and whatever symbols are held, a resolve call on a symbol the
\* adaptor issued succeeds, and dropping a Ref ends its borrow: once the last
\* Ref is dropped intern succeeds again.
C34_LocksReleased ==
    [][\A p \in DOMAIN pools :
          /\ pools'[p].wrapped.borrow = Cardinality(RefsInto(p)')
          /\ (IsCall(last', "intern", p) /\ RefsInto(p) = {}) =>
                /\ last'.res.tag \in {"Ok", "Err"}
                /\ pools'[p].wrapped.borrow = 0
                /\ \A v \in DOMAIN hashfn :
                      Luma_intern(pools'[p], v).res.tag \in {"Ok", "Err"}
          /\ (IsCall(last', "resolve", p) /\ last'.arg \in IssuedBy(p)) =>
                /\ IsOk(last'.res)
                /\ pools'[p].wrapped.borrow = pools[p].wrapped.borrow + 1
          /\ (IsCall(last', "drop", p)) =>
                /\ pools'[p].wrapped.borrow = pools[p].wrapped.borrow - 1
                /\ RefsInto(p)' = {} =>
                      \A v \in DOMAIN hashfn :
                          Luma_intern(pools'[p], v).res
                              = Luma_intern(Luma_from(pools[p].wrapped.value), v).res]_shown

\* an intern call was refused for lack of room while no Ref is alive; the
\* symbols issued before still resolve and an intern of a stored value
\* succeeds
C34_Witness ==
    /\ IsCall(last, "intern", "lu1") /\ last.res = Err("PoolOverflow")
    /\ refs = <<>> /\ pools["lu1"].wrapped.borrow = 0
    /\ Cardinality(IssuedBy("lu1")) >= 2
    /\ \A sym \in IssuedBy("lu1") : IsOk(Luma_resolve(pools["lu1"], sym).res)
    /\ \E v \in DOMAIN hashfn : IsOk(Luma_intern(pools["lu1"], v).res)

\* C35: when the same calls are made on a Luma adaptor over a pool and on a
\* bare pool of the same type, no Ref being kept across an intern call, each
\* intern call returns Ok with the same id on both or Err(PoolOverflow) on
\* both, each resolve call gives the same value on both, each len, is_empty
\* and is_full call gives the same answer on both, and the pool inside the
\* adaptor holds the entries and the index of the bare pool: the adaptor
\* adds the borrow flag and nothing else.
C35_LumaTransparent ==
    /\ pools["lu"].wrapped.value.lookup_vec = pools["bare"].lookup_vec
    /\ pools["lu"].wrapped.value.ids_map = pools["bare"].ids_map
    /\ \A v \in DOMAIN hashfn :
          {s.wrapped.id : s \in ret["lu"][v]} = {s.id : s \in ret["bare"][v]}
    /\ last.op = "intern" =>
          \/ /\ IsOk(last.res[1]) /\ IsOk(last.res[2])
             /\ last.res[1].val.wrapped.id = last.res[2].val.id
          \/ last.res[1] = Err("PoolOverflow") /\ last.res[2] = Err("PoolOverflow")
    /\ last.op = "resolve" =>
          IsOk(last.res[2]) /\ last.res[1] = last.res[2]
    /\ last.op \in {"len", "is_empty", "is_full"} =>
          IsOk(last.res[2]) /\ last.res[1] = last.res[2]

\* both sides refused a value for lack of room after they had issued the
\* same ids up to the largest, no Ref being alive
C35_Witness ==
    /\ last.op = "intern"
    /\ last.res = <<Err("PoolOverflow"), Err("PoolOverflow")>>
    /\ Pool_len(pools["bare"]) = IdMax /\ Luma_len(pools["lu"]) = IdMax
    /\ pools["lu"].wrapped.borrow = 0
    /\ \E v \in DOMAIN hashfn : \E s \in ret["lu"][v] : s.wrapped.id = IdMax - 1

-----------------------------------------------------------------------------
(* Claims about the 16-byte symbols *)

\* C36: for every string s of 0 to 15 bytes, Inline::new(s).as_ref() is s,
\* the packed symbol's as_ref() is s and its type_of() is INLINE, and
\* unpacking it gives back the Inline that was packed; every symbol that
\* lp.sym returned for a string of more than 15 bytes has type_of() POOLED
\* and an as_ref() that is the string.
C36_LegacyPacking ==
    /\ (last.op = "Inline::new" /\ Len(last.arg) <= INLINE_SYMBOL_MAX_LEN) =>
          /\ IsOk(last.res)
          /\ Legacy_Inline_as_ref(last.res.val) = last.arg
          /\ Symbol_as_ref(Legacy_Inline_pack(last.res.val)) = Ok(last.arg)
          /\ Symbol_type_of(Legacy_Inline_pack(last.res.val)) = "INLINE"
          /\ Unpacked_unpack(Legacy_Inline_pack(last.res.val))
                = Ok([kind |-> "Inline", val |-> last.res.val])
    /\ \A s \in PooledStrs : \A sym \in ret["lp"][s] :
          /\ Symbol_type_of(sym) = "POOLED"
          /\ Symbol_as_ref(sym) = Ok(s)

=============================================================================
